---- MODULE Spec2Model ----
(***************************************************************************)
(* A model of the transactional core of the financial ledger: Money, the   *)
(* BankAccount entity, the in-memory repositories, the reversible commands *)
(* and the CommandHistory undo/redo stack, and the balance reconciliation  *)
(* service.                                                                *)
(*                                                                         *)
(* Entities are heap objects held by shared_ptr: the repositories store    *)
(* pointers, so `accounts` / `operations` / `categories` are the heaps     *)
(* (index = the object's generated id) and accountRepo / operationRepo /   *)
(* categoryRepo are the key sets of the repositories' storage_ maps.  A    *)
(* mutation of an object is therefore visible through the repository as    *)
(* soon as it is made, as in the code.                                     *)
(*                                                                         *)
(* Amounts are whole currency units (the Decimal values of the scenarios   *)
(* are integral); floating-point rounding is not modelled.                 *)
(***************************************************************************)
EXTENDS Integers, Sequences, FiniteSets, TLC

VARIABLES
    accounts,       \* heap of BankAccount objects, index = id
    accountRepo,    \* ids stored in the account repository
    operations,     \* heap of Operation objects, index = id
    operationRepo,  \* ids stored in the operation repository
    categories,     \* heap of Category objects, index = id
    categoryRepo,   \* ids stored in the category repository
    commands,       \* heap of command objects
    history,        \* CommandHistory::history_ (sequence of command refs)
    currentIndex,   \* CommandHistory::currentIndex_
    last,           \* the most recent call and its outcome
    ghost,          \* per command: balance seen before its latest execute
    run,            \* the calls of the session while all of them succeeded
    storage,        \* InMemoryRepository::storage_ behind the caching proxy
    cache,          \* CachingRepositoryProxy::cache_ (id -> data, expiry)
    cacheDuration,  \* CachingRepositoryProxy::cacheDuration_
    now,            \* reading of std::chrono::steady_clock
    mutex,          \* holder of cacheMutex_ and of the repository's mutex_
    threads,        \* per thread: the proxy call it is in and its position
    reply,          \* the most recent call to the proxy that returned
    inTransaction   \* InMemoryUnitOfWork::inTransaction_

vars == <<accounts, accountRepo, operations, operationRepo, categories,
          categoryRepo, commands, history, currentIndex, last, ghost, run,
          storage, cache, cacheDuration, now, mutex, threads, reply,
          inTransaction>>

(***************************************************************************)
(* Bounds of the model.                                                    *)
(***************************************************************************)
MaxCommands == 3
MaxAccounts == 2
MaxOperations == 3
MaxCategories == 1
MaxRun == 4

Currencies == {"RUB", "USD"}
InitialBalances == {-1, 0, 100000}
Amounts == {0, 5000, 50000}
\* the smaller inputs of the session in which accounts are also (de)activated
FewBalances == {0, 5000}
FewAmounts == {5000}

(***************************************************************************)
(* Money                                                                   *)
(***************************************************************************)
EpsilonInverse == 1000

Abs(x) == IF x < 0 THEN -x ELSE x

Money(amount, currency) == [amount |-> amount, currency |-> currency]

NoMoney == Money(0, "")

MoneyZero(currency) == Money(0, currency)

\* add / subtract throw when the currencies differ
MoneyMismatch(a, b) == a.currency # b.currency

MoneyAdd(a, b) == Money(a.amount + b.amount, a.currency)

MoneySubtract(a, b) == Money(a.amount - b.amount, a.currency)

isPositive(m) == m.amount > 0

isZero(m) == Abs(m.amount) * EpsilonInverse < 1

MoneyEquals(a, b) ==
    /\ Abs(a.amount - b.amount) * EpsilonInverse < 1
    /\ a.currency = b.currency

\* operands of the comparison exchanged
MoneyLess_Swapped(a, b) == b.amount < a.amount

MoneyLess(a, b) == a.amount < b.amount

(***************************************************************************)
(* BankAccount.  Every mutator returns the error raised ("none" when it    *)
(* returned normally) and the object as the call leaves it.                *)
(***************************************************************************)
BankAccount(initialBalance) ==
    [balance |-> initialBalance, currency |-> initialBalance.currency,
     isActive |-> TRUE]

AccResult(err, acc) == [err |-> err, acc |-> acc]

deposit(acc, amount) ==
    IF ~acc.isActive THEN AccResult("Domain", acc)
    ELSE IF amount.currency # acc.currency THEN AccResult("Validation", acc)
    ELSE IF ~isPositive(amount) THEN AccResult("Validation", acc)
    ELSE IF MoneyMismatch(acc.balance, amount) THEN AccResult("Validation", acc)
    ELSE AccResult("none", [acc EXCEPT !.balance = MoneyAdd(acc.balance, amount)])

\* withdraw without the comparison against the balance
withdraw_NoFundsCheck(acc, amount) ==
    IF ~acc.isActive THEN AccResult("Domain", acc)
    ELSE IF amount.currency # acc.currency THEN AccResult("Validation", acc)
    ELSE IF ~isPositive(amount) THEN AccResult("Validation", acc)
    ELSE AccResult("none",
                   [acc EXCEPT !.balance = MoneySubtract(acc.balance, amount)])

withdraw(acc, amount) ==
    IF ~acc.isActive THEN AccResult("Domain", acc)
    ELSE IF amount.currency # acc.currency THEN AccResult("Validation", acc)
    ELSE IF ~isPositive(amount) THEN AccResult("Validation", acc)
    ELSE IF MoneyMismatch(acc.balance, amount) THEN AccResult("Validation", acc)
    ELSE IF MoneyLess(acc.balance, amount)
         THEN AccResult("InsufficientFunds", acc)
    ELSE AccResult("none",
                   [acc EXCEPT !.balance = MoneySubtract(acc.balance, amount)])

\* transfer that lets the deposit's exception through without crediting back
transfer_NoCompensation(src, srcId, dst, dstId, amount) ==
    IF ~src.isActive \/ ~dst.isActive
    THEN [err |-> "Domain", from |-> src, to |-> dst]
    ELSE IF srcId = dstId
    THEN [err |-> "Validation", from |-> src, to |-> dst]
    ELSE LET w == withdraw(src, amount) IN
         IF w.err # "none"
         THEN [err |-> w.err, from |-> src, to |-> dst]
         ELSE LET d == deposit(dst, amount) IN
              IF d.err = "none"
              THEN [err |-> "none", from |-> w.acc, to |-> d.acc]
              ELSE [err |-> d.err, from |-> w.acc, to |-> dst]

\* this->transfer(target, amount); srcId / dstId are the two objects' ids
transfer(src, srcId, dst, dstId, amount) ==
    IF ~src.isActive \/ ~dst.isActive
    THEN [err |-> "Domain", from |-> src, to |-> dst]
    ELSE IF srcId = dstId
    THEN [err |-> "Validation", from |-> src, to |-> dst]
    ELSE LET w == withdraw(src, amount) IN
         IF w.err # "none"
         THEN [err |-> w.err, from |-> src, to |-> dst]
         ELSE LET d == deposit(dst, amount) IN
              IF d.err = "none"
              THEN [err |-> "none", from |-> w.acc, to |-> d.acc]
              ELSE LET back == deposit(w.acc, amount) IN
                   [err |-> IF back.err # "none" THEN back.err ELSE d.err,
                    from |-> back.acc, to |-> dst]

\* recalculateBalance that validates but does not assign
recalculateBalance_Keep(acc, newBalance) ==
    IF newBalance.currency # acc.currency THEN AccResult("Validation", acc)
    ELSE AccResult("none", acc)

recalculateBalance(acc, newBalance) ==
    IF newBalance.currency # acc.currency THEN AccResult("Validation", acc)
    ELSE AccResult("none", [acc EXCEPT !.balance = newBalance])

activate(acc) == [acc EXCEPT !.isActive = TRUE]

deactivate(acc) == [acc EXCEPT !.isActive = FALSE]

(***************************************************************************)
(* Repositories (InMemoryRepository<T>): storage_ keyed by id.  Objects    *)
(* are created with fresh ids only, so one object belongs to each id and   *)
(* the storage is given by its key set.                                    *)
(***************************************************************************)
RepoSave(repo, id) == repo \cup {id}

RepoUpdate(repo, id) ==
    IF id \notin repo THEN [err |-> "NotFound", repo |-> repo]
    ELSE [err |-> "none", repo |-> repo \cup {id}]

RepoRemove(repo, id) == repo \ {id}

RepoFindById(repo, id) == id \in repo

\* InMemoryOperationRepository::findByAccount
findByAccount(w, accountId) ==
    {o \in w.operationRepo : w.operations[o].bankAccountId = accountId}

\* InMemoryCategoryRepository::findByName: any stored category of that name
findByName(w, name) ==
    {k \in w.categoryRepo : w.categories[k].name = name}

(***************************************************************************)
(* The world a command acts on, and the entity factory.  IdGenerator       *)
(* yields a fresh id on every call: the id of a new object is its index    *)
(* in the heap.                                                            *)
(***************************************************************************)
World ==
    [accounts |-> accounts, accountRepo |-> accountRepo,
     operations |-> operations, operationRepo |-> operationRepo,
     categories |-> categories, categoryRepo |-> categoryRepo]

MAX_DESCRIPTION_LENGTH == 500
CategoryDescriptionLength == 200

\* BankAccount(id, name, initialBalance): the account with its name
NamedAccount(name, initialBalance) ==
    [name |-> name, balance |-> initialBalance,
     currency |-> initialBalance.currency, isActive |-> TRUE]

\* -> [err, w, id]
createBankAccount(w, name, initialBalance) ==
    IF name = "" THEN [err |-> "Validation", w |-> w, id |-> 0]
    ELSE IF initialBalance.amount < 0
    THEN [err |-> "Validation", w |-> w, id |-> 0]
    ELSE [err |-> "none",
          w |-> [w EXCEPT !.accounts =
                     Append(@, NamedAccount(name, initialBalance))],
          id |-> Len(w.accounts) + 1]

\* a description is modelled by its length
createCategory(w, type, name, description) ==
    IF name = "" THEN [err |-> "Validation", w |-> w, id |-> 0]
    ELSE IF description > MAX_DESCRIPTION_LENGTH
    THEN [err |-> "Validation", w |-> w, id |-> 0]
    \* Category::validate, run by the constructor
    ELSE IF description > CategoryDescriptionLength
    THEN [err |-> "Validation", w |-> w, id |-> 0]
    ELSE [err |-> "none",
          w |-> [w EXCEPT !.categories =
                     Append(@, [type |-> type, name |-> name])],
          id |-> Len(w.categories) + 1]

\* ids are validated by format; 0 stands for a malformed (empty) id
createOperation(w, type, bankAccountId, amount, categoryId, description) ==
    IF bankAccountId = 0 \/ categoryId = 0
    THEN [err |-> "Validation", w |-> w, id |-> 0]
    ELSE IF amount.amount <= 0
    THEN [err |-> "Validation", w |-> w, id |-> 0]
    ELSE IF description > MAX_DESCRIPTION_LENGTH
    THEN [err |-> "Validation", w |-> w, id |-> 0]
    ELSE [err |-> "none",
          w |-> [w EXCEPT !.operations =
                     Append(@, [type |-> type, bankAccountId |-> bankAccountId,
                                amount |-> amount, categoryId |-> categoryId])],
          id |-> Len(w.operations) + 1]

(***************************************************************************)
(* OperationProcessingService::processOperation -> [err, w]                *)
(***************************************************************************)
processOperation(w, opId) ==
    LET op == w.operations[opId]
        id == op.bankAccountId
    IN  IF ~RepoFindById(w.accountRepo, id) THEN [err |-> "NotFound", w |-> w]
        ELSE LET r == IF op.type = "INCOME"
                      THEN deposit(w.accounts[id], op.amount)
                      ELSE withdraw(w.accounts[id], op.amount)
             IN  IF r.err # "none" THEN [err |-> r.err, w |-> w]
                 ELSE LET w1 == [w EXCEPT !.accounts[id] = r.acc,
                                          !.operationRepo = RepoSave(@, opId)]
                          u == RepoUpdate(w1.accountRepo, id)
                      IN  [err |-> u.err, w |-> [w1 EXCEPT !.accountRepo = u.repo]]

(***************************************************************************)
(* BalanceReconciliationService::checkAccountBalance                       *)
(***************************************************************************)
RECURSIVE foldOperations(_, _, _)
foldOperations(w, ops, calculated) ==
    IF ops = {} THEN calculated
    ELSE LET o == CHOOSE x \in ops : TRUE
             op == w.operations[o]
         IN  foldOperations(w, ops \ {o},
                 IF op.type = "INCOME" THEN MoneyAdd(calculated, op.amount)
                 ELSE MoneySubtract(calculated, op.amount))

\* defined for an account present in the repository (else it raises NotFound)
checkAccountBalance(w, accountId) ==
    LET account == w.accounts[accountId]
        calculated == foldOperations(w, findByAccount(w, accountId),
                                     MoneyZero(account.currency))
    IN  [accountId |-> accountId,
         balance |-> account.balance,
         calculatedBalance |-> calculated,
         hasDiscrepancy |-> ~MoneyEquals(account.balance, calculated)]

(***************************************************************************)
(* Commands.  A command object carries its constructor arguments and the   *)
(* private fields its doExecute fills in; 0 stands for a null pointer.     *)
(* doExecute / doUndo return the error raised, the world and the command   *)
(* object as the call leaves them (also when it raises half-way).          *)
(***************************************************************************)
NewCommand(kind, name, type, accountId, toAccountId, amount, categoryId) ==
    [kind |-> kind, executed |-> FALSE,
     name |-> name, type |-> type, accountId |-> accountId,
     toAccountId |-> toAccountId, amount |-> amount, categoryId |-> categoryId,
     description |-> 0,
     created |-> 0, account |-> 0, previousBalance |-> NoMoney,
     withdrawOperation |-> 0, depositOperation |-> 0]

CmdResult(err, w, cmd) == [err |-> err, w |-> w, cmd |-> cmd]

\* ICommand::canUndo is false unless the command kind overrides it
canUndo(cmd) ==
    cmd.kind \in {"CreateAccount", "CreateCategory", "AddOperation", "Transfer"}

CreateAccount_doExecute(w, c) ==
    LET f == createBankAccount(w, c.name, c.amount)
    IN  IF f.err # "none" THEN CmdResult(f.err, w, c)
        ELSE CmdResult("none",
                       [f.w EXCEPT !.accountRepo = RepoSave(@, f.id)],
                       [c EXCEPT !.created = f.id])

\* doUndo that forgets the account and leaves it stored
CreateAccount_doUndo_Keep(w, c) == CmdResult("none", w, [c EXCEPT !.created = 0])

CreateAccount_doUndo(w, c) ==
    IF c.created # 0
    THEN CmdResult("none",
                   [w EXCEPT !.accountRepo = RepoRemove(@, c.created)],
                   [c EXCEPT !.created = 0])
    ELSE CmdResult("none", w, c)

CreateCategory_doExecute(w, c) ==
    LET f == createCategory(w, c.type, c.name, c.description)
    IN  IF f.err # "none" THEN CmdResult(f.err, w, c)
        ELSE CmdResult("none",
                       [f.w EXCEPT !.categoryRepo = RepoSave(@, f.id)],
                       [c EXCEPT !.created = f.id])

CreateCategory_doUndo(w, c) ==
    IF c.created # 0
    THEN CmdResult("none",
                   [w EXCEPT !.categoryRepo = RepoRemove(@, c.created)],
                   [c EXCEPT !.created = 0])
    ELSE CmdResult("none", w, c)

AddOperation_doExecute(w, c) ==
    IF ~RepoFindById(w.accountRepo, c.accountId) THEN CmdResult("NotFound", w, c)
    ELSE LET c1 == [c EXCEPT !.account = c.accountId,
                             !.previousBalance = w.accounts[c.accountId].balance]
             f == createOperation(w, c.type, c.accountId, c.amount, c.categoryId,
                                  c.description)
         IN  IF f.err # "none" THEN CmdResult(f.err, w, c1)
             ELSE LET p == processOperation(f.w, f.id)
                  IN  CmdResult(p.err, p.w, [c1 EXCEPT !.created = f.id])

AddOperation_doUndo(w, c) ==
    IF c.created # 0 /\ c.account # 0
    THEN LET w1 == [w EXCEPT !.operationRepo = RepoRemove(@, c.created)]
             r == recalculateBalance(w1.accounts[c.account], c.previousBalance)
         IN  IF r.err # "none" THEN CmdResult(r.err, w1, c)
             ELSE LET w2 == [w1 EXCEPT !.accounts[c.account] = r.acc]
                      u == RepoUpdate(w2.accountRepo, c.account)
                  IN  IF u.err # "none" THEN CmdResult(u.err, w2, c)
                      ELSE CmdResult("none", w2, [c EXCEPT !.created = 0])
    ELSE CmdResult("none", w, c)

TransferCategoryName == "Transfer"

\* a transfer that records no deposit operation
Transfer_recordDeposit_Skip(w, c, k) == CmdResult("none", w, c)

\* the deposit operation of a transfer, created after the withdraw operation
Transfer_recordDeposit(w, c, k) ==
    LET o2 == createOperation(w, "INCOME", c.toAccountId, c.amount, k,
                              c.description)
    IN  IF o2.err # "none" THEN CmdResult(o2.err, w, c)
        ELSE CmdResult("none",
                       [o2.w EXCEPT !.operationRepo = RepoSave(@, o2.id)],
                       [c EXCEPT !.depositOperation = o2.id])

\* the withdraw operation of a transfer; k is the transfer category's id
Transfer_recordWithdraw(w, c, k) ==
    LET o1 == createOperation(w, "EXPENSE", c.accountId, c.amount, k,
                              c.description)
    IN  IF o1.err # "none" THEN CmdResult(o1.err, w, c)
        ELSE Transfer_recordDeposit(
                 [o1.w EXCEPT !.operationRepo = RepoSave(@, o1.id)],
                 [c EXCEPT !.withdrawOperation = o1.id], k)

\* the transfer category is looked up by name and created if absent
Transfer_categorise(w, c) ==
    LET found == findByName(w, TransferCategoryName)
        k == createCategory(w, "EXPENSE", TransferCategoryName, 0)
    IN  IF found # {}
        THEN Transfer_recordWithdraw(w, c, CHOOSE x \in found : TRUE)
        ELSE Transfer_recordWithdraw(
                 [k.w EXCEPT !.categoryRepo = RepoSave(@, k.id)], c, k.id)

\* t is what fromAccount->transfer(*toAccount, amount_) returned; both
\* objects are mutated in place, also by a transfer that raised
Transfer_moved(w, c, t) ==
    LET w1 == IF c.accountId = c.toAccountId THEN w
              ELSE [w EXCEPT !.accounts[c.accountId] = t.from,
                             !.accounts[c.toAccountId] = t.to]
    IN  IF t.err # "none" THEN CmdResult(t.err, w1, c)
        ELSE Transfer_categorise(w1, c)

Transfer_doExecute(w, c) ==
    LET from == c.accountId
        to == c.toAccountId
    IN  IF ~RepoFindById(w.accountRepo, from) \/ ~RepoFindById(w.accountRepo, to)
        THEN CmdResult("NotFound", w, c)
        ELSE Transfer_moved(w, c,
                 transfer(w.accounts[from], from, w.accounts[to], to, c.amount))

Transfer_doUndo(w, c) ==
    LET from == c.accountId
        to == c.toAccountId
    IN  IF RepoFindById(w.accountRepo, from) /\ RepoFindById(w.accountRepo, to)
        THEN LET t == transfer(w.accounts[to], to, w.accounts[from], from,
                               c.amount)
                 w1 == IF from = to THEN w
                       ELSE [w EXCEPT !.accounts[to] = t.from,
                                      !.accounts[from] = t.to]
             IN  CmdResult(t.err, w1, c)
        ELSE CmdResult("none", w, c)

doExecute(w, c) ==
    CASE c.kind = "CreateAccount" -> CreateAccount_doExecute(w, c)
      [] c.kind = "CreateCategory" -> CreateCategory_doExecute(w, c)
      [] c.kind = "AddOperation"  -> AddOperation_doExecute(w, c)
      [] c.kind = "Transfer"      -> Transfer_doExecute(w, c)
      [] OTHER                    -> CmdResult("none", w, c)

doUndo(w, c) ==
    CASE c.kind = "CreateAccount" -> CreateAccount_doUndo(w, c)
      [] c.kind = "CreateCategory" -> CreateCategory_doUndo(w, c)
      [] c.kind = "AddOperation"  -> AddOperation_doUndo(w, c)
      [] c.kind = "Transfer"      -> Transfer_doUndo(w, c)
      [] OTHER                    -> CmdResult("none", w, c)

\* executed_ = true once doExecute has returned
markExecuted(r) ==
    IF r.err # "none" THEN r
    ELSE CmdResult("none", r.w, [r.cmd EXCEPT !.executed = TRUE])

\* executed_ = false once doUndo has returned
markUndone(r) ==
    IF r.err # "none" THEN r
    ELSE CmdResult("none", r.w, [r.cmd EXCEPT !.executed = FALSE])

\* execute without the executed_ check
CommandExecute_Rerun(w, c) == markExecuted(doExecute(w, c))

\* BaseCommand::execute
CommandExecute(w, c) ==
    IF c.executed THEN CmdResult("AlreadyExecuted", w, c)
    ELSE markExecuted(doExecute(w, c))

\* undo without the canUndo check
CommandUndo_Unchecked(w, c) ==
    IF ~c.executed THEN CmdResult("NotExecuted", w, c)
    ELSE markUndone(doUndo(w, c))

\* BaseCommand::undo
CommandUndo(w, c) ==
    IF ~c.executed THEN CmdResult("NotExecuted", w, c)
    ELSE IF ~canUndo(c) THEN CmdResult("NotUndoable", w, c)
    ELSE markUndone(doUndo(w, c))

(***************************************************************************)
(* CachingRepositoryProxy<T> over an InMemoryRepository<T>.  An object is  *)
(* given by its id and a version that tells apart two objects carrying the *)
(* same id; NoObject stands for std::nullopt.  Time is the reading of the  *)
(* steady clock, in units of the cache duration.                           *)
(***************************************************************************)
ObjectIds == {1, 2}
Versions == {1, 2}
Objects == [id : ObjectIds, ver : Versions]
NoObject == [id |-> 0, ver |-> 0]
EmptyMap == [x \in {} |-> NoObject]
DefaultCacheDuration == 1
Durations == {0, 1, 2}

\* std::unordered_map::insert in place of operator[]= : a stored id is kept
StorageSave_Insert(s, e) ==
    [x \in DOMAIN s \cup {e.id} |-> IF x \in DOMAIN s THEN s[x] ELSE e]

\* InMemoryRepository<T>::save
StorageSave(s, e) ==
    [x \in DOMAIN s \cup {e.id} |-> IF x = e.id THEN e ELSE s[x]]

StorageUpdate_Upsert(s, e) == [err |-> "none", storage |-> StorageSave(s, e)]

\* InMemoryRepository<T>::update -> [err, storage]
StorageUpdate(s, e) ==
    IF e.id \notin DOMAIN s
    THEN [err |-> "NotFound", storage |-> s]
    ELSE [err |-> "none", storage |-> StorageSave(s, e)]

\* InMemoryRepository<T>::remove
StorageRemove(s, id) == [x \in DOMAIN s \ {id} |-> s[x]]

\* InMemoryRepository<T>::findById
StorageFindById(s, id) == IF id \in DOMAIN s THEN s[id] ELSE NoObject

\* InMemoryRepository<T>::findAll
StorageFindAll(s) == {s[x] : x \in DOMAIN s}

\* InMemoryRepository<T>::count
StorageCount(s) == Cardinality(DOMAIN s)

\* CacheEntry::isExpired at clock reading t
isExpired_Inclusive(entry, t) == t >= entry.expiry

isExpired(entry, t) == t > entry.expiry

\* CachingRepositoryProxy::cacheEntity: cache_[id] = {entity, now + duration}
cacheEntity_Emplace(c, e, t, d) ==
    [x \in DOMAIN c \cup {e.id} |->
        IF x \in DOMAIN c THEN c[x] ELSE [data |-> e, expiry |-> t + d]]

cacheEntity(c, e, t, d) ==
    [x \in DOMAIN c \cup {e.id} |->
        IF x = e.id THEN [data |-> e, expiry |-> t + d] ELSE c[x]]

\* the loop of findAll: cacheEntity for every entity of the result (their
\* ids differ, so the order of the loop does not matter)
cacheAll_Skip(c, es, t, d) == c

cacheAll(c, es, t, d) ==
    [x \in DOMAIN c \cup {e.id : e \in es} |->
        IF \E e \in es : e.id = x
        THEN [data |-> CHOOSE e \in es : e.id = x, expiry |-> t + d]
        ELSE c[x]]

\* cache_.erase(id) in CachingRepositoryProxy::remove
cacheErase_Keep(c, id) == c

cacheErase(c, id) == [x \in DOMAIN c \ {id} |-> c[x]]

\* the lookup block of CachingRepositoryProxy::findById
cacheHit(c, id, t) == id \in DOMAIN c /\ ~isExpired(c[id], t)

\* CachingRepositoryProxy::findById run without interruption at clock
\* reading t -> the value returned, the cache it leaves and the number of
\* calls it made to the real repository
findByIdMiss(s, c, d, found, t) ==
    [result |-> found,
     cache |-> IF found # NoObject THEN cacheEntity(c, found, t, d) ELSE c,
     repoCalls |-> 1]

findById(s, c, d, id, t) ==
    IF cacheHit(c, id, t)
    THEN [result |-> c[id].data, cache |-> c, repoCalls |-> 0]
    ELSE findByIdMiss(s, c, d, StorageFindById(s, id), t)

\* the outcome of a call to the proxy, as its caller sees it; was is the
\* object the cache held unexpired for the id when the call began
Reply(op, id, arg, result, all, repoCalls, err, was) ==
    [op |-> op, id |-> id, arg |-> arg, result |-> result, all |-> all,
     repoCalls |-> repoCalls, err |-> err, was |-> was]

NoReply == Reply("init", 0, NoObject, NoObject, {}, 0, "none", NoObject)

Cached(c, id, t) == IF cacheHit(c, id, t) THEN c[id].data ELSE NoObject

\* the threads that call one proxy, and its two mutexes (0: not held)
MaxThreads == 2
Threads == 1 .. MaxThreads
FreeMutexes == [cache |-> 0, repo |-> 0]
IdleThread ==
    [op |-> "-", pc |-> "idle", id |-> 0, arg |-> NoObject,
     result |-> NoObject, all |-> {}, todo |-> {}, seen |-> {},
     err |-> "none", count |-> 0, snap |-> EmptyMap]

\* no proxy is in use
NoProxy ==
    /\ storage = EmptyMap
    /\ cache = EmptyMap
    /\ cacheDuration = DefaultCacheDuration
    /\ now = 0
    /\ mutex = FreeMutexes
    /\ threads = [t \in Threads |-> IdleThread]
    /\ reply = NoReply
    /\ inTransaction = FALSE

RepositoryFrame ==
    UNCHANGED <<storage, cache, cacheDuration, now, mutex, threads, reply>>

ProxyFrame ==
    /\ RepositoryFrame
    /\ UNCHANGED inTransaction

(***************************************************************************)
(* State machine of one session: the facades build a command and submit    *)
(* it to the CommandHistory; undo / redo / clear act on the history; the   *)
(* account facade activates and deactivates accounts.                      *)
(***************************************************************************)
DefaultCurrency == "RUB"
AccountNames == {"", "Main"}
AccountIds == 1..MaxAccounts
CategoryIds == {1}
OperationTypes == {"INCOME", "EXPENSE"}

\* last: the call, the kind of command it ran ("-" if none), the command's
\* place in the heap (0 if it was dropped or none ran) and the error raised
Call(op, kind, cmd, err) == [op |-> op, kind |-> kind, cmd |-> cmd, err |-> err]

NoCall(op) == Call(op, "-", 0, "none")

NoGhost == [before |-> NoMoney, clean |-> FALSE]

\* run: the calls made so far, kept while every call returned normally and
\* acted on a command; <<NoCall("off")>> afterwards
RunOff == <<NoCall("off")>>

NextRun(call) ==
    IF /\ run # RunOff
       /\ Len(run) < MaxRun
       /\ call.err = "none"
       /\ call.cmd # 0
    THEN Append(run, call)
    ELSE RunOff

Track == run' = NextRun(last')

Init ==
    /\ accounts = <<>>
    /\ accountRepo = {}
    /\ operations = <<>>
    /\ operationRepo = {}
    /\ categories = <<>>
    /\ categoryRepo = {}
    /\ commands = <<>>
    /\ history = <<>>
    /\ currentIndex = 0
    /\ last = NoCall("init")
    /\ ghost = <<>>
    /\ run = <<>>
    /\ NoProxy

WithinBounds(w) ==
    /\ Len(w.accounts) <= MaxAccounts
    /\ Len(w.operations) <= MaxOperations
    /\ Len(w.categories) <= MaxCategories

SetWorld(w) ==
    /\ accounts' = w.accounts
    /\ accountRepo' = w.accountRepo
    /\ operations' = w.operations
    /\ operationRepo' = w.operationRepo
    /\ categories' = w.categories
    /\ categoryRepo' = w.categoryRepo

\* the balance of account a is the same in both heaps
SameBalance(a, old, new) ==
    a \in DOMAIN old => new[a].balance = old[a].balance

\* ghost bookkeeping: `ran` is the AddOperation command whose execute just
\* succeeded (0 if none); cmds is the command heap after the step
NextGhost(ran, cmds, new) ==
    [c \in DOMAIN cmds |->
        IF c = ran
        THEN [before |-> accounts[cmds[c].accountId].balance, clean |-> TRUE]
        ELSE IF c \in DOMAIN ghost
        THEN [ghost[c] EXCEPT
                 !.clean = @ /\ SameBalance(cmds[c].accountId, accounts, new)]
        ELSE NoGhost]

\* execute that keeps the undone commands
Truncate_Keep(h, k) == h

\* CommandHistory::execute: the undone commands beyond the cursor are erased
Truncate(h, k) == IF k < Len(h) THEN SubSeq(h, 1, k) ELSE h

\* the cursor moved before the command ran
IndexAfterExecute_Early(h1, ok, k) == Len(h1) + 1

\* CommandHistory::execute: the cursor moves to the end once the command ran
IndexAfterExecute(h1, ok, k) == IF ok THEN Len(h1) + 1 ELSE k

\* the cursor moved before the command's undo ran
IndexAfterUndo_Early(ok, k) == k - 1

\* the cursor left where it was after the command's undo ran
IndexAfterUndo_Stay(ok, k) == k

\* CommandHistory::undo: the cursor moves back once the command's undo ran
IndexAfterUndo(ok, k) == IF ok THEN k - 1 ELSE k

\* CommandHistory::redo: the cursor advances once the command ran again
IndexAfterRedo(ok, k) == IF ok THEN k + 1 ELSE k

\* CommandHistory::execute(command); cmds is the command heap holding c
HistoryExecute(c, cmds, fresh) ==
    \E r \in {CommandExecute(World, cmds[c])} :
    LET h1 == Truncate(history, currentIndex)
        ok == r.err = "none"
        \* a new command that failed is dropped by the facade
        cmds1 == IF fresh /\ ~ok THEN commands ELSE [cmds EXCEPT ![c] = r.cmd]
    IN  /\ WithinBounds(r.w)
        /\ SetWorld(r.w)
        /\ commands' = cmds1
        /\ history' = IF ok THEN Append(h1, c) ELSE h1
        /\ currentIndex' = IndexAfterExecute(h1, ok, currentIndex)
        /\ last' = Call("execute", r.cmd.kind,
                         IF fresh /\ ~ok THEN 0 ELSE c, r.err)
        /\ ghost' = NextGhost(IF ok /\ r.cmd.kind = "AddOperation" THEN c ELSE 0,
                              cmds1, r.w.accounts)
        /\ Track
        /\ ProxyFrame

Submit(cmd) ==
    /\ Len(commands) < MaxCommands
    /\ HistoryExecute(Len(commands) + 1, Append(commands, cmd), TRUE)

\* AccountFacade::createAccount
CreateAccountCommand(name, b) ==
    NewCommand("CreateAccount", name, "-", 0, 0, Money(b, DefaultCurrency), 0)

\* OperationFacade::addIncome / addExpense, AccountFacade::deposit / withdraw
AddOperationCommand(type, a, m, k) ==
    NewCommand("AddOperation", "", type, a, 0, Money(m, DefaultCurrency), k)

\* AccountFacade::transfer
TransferCommand(from, to, m) ==
    NewCommand("Transfer", "", "-", from, to, Money(m, DefaultCurrency), 0)

SubmitCreateAccount(balances) ==
    \E name \in AccountNames, b \in balances :
        Submit(CreateAccountCommand(name, b))

SubmitAddOperation(amounts) ==
    \E type \in OperationTypes, a \in AccountIds, m \in amounts,
       k \in CategoryIds :
        Submit(AddOperationCommand(type, a, m, k))

SubmitTransfer(amounts) ==
    \E from \in AccountIds, to \in AccountIds, m \in amounts :
        Submit(TransferCommand(from, to, m))

SubmitBase ==
    Submit(NewCommand("Base", "", "-", 0, 0, NoMoney, 0))

\* a caller submits a command object it still holds
Resubmit ==
    \E c \in DOMAIN commands : HistoryExecute(c, commands, FALSE)

\* CommandHistory::canUndo / canRedo
HistoryCanUndo == currentIndex > 0 /\ canUndo(commands[history[currentIndex]])

HistoryCanRedo == currentIndex < Len(history)

\* CommandHistory::undo
HistoryUndo ==
    IF HistoryCanUndo /\ canUndo(commands[history[currentIndex]])
    THEN \E r \in {CommandUndo(World, commands[history[currentIndex]])} :
         LET c == history[currentIndex]
             cmds1 == [commands EXCEPT ![c] = r.cmd]
         IN  /\ SetWorld(r.w)
             /\ commands' = cmds1
             /\ currentIndex' = IndexAfterUndo(r.err = "none", currentIndex)
             /\ last' = Call("undo", r.cmd.kind, c, r.err)
             /\ ghost' = NextGhost(0, cmds1, r.w.accounts)
             /\ UNCHANGED history
             /\ Track
             /\ ProxyFrame
    ELSE /\ last' = NoCall("undo")
         /\ UNCHANGED <<accounts, accountRepo, operations, operationRepo,
                        categories, categoryRepo, commands, history,
                        currentIndex, ghost>>
         /\ Track
         /\ ProxyFrame

\* CommandHistory::redo
HistoryRedo ==
    IF HistoryCanRedo
    THEN \E r \in {CommandExecute(World, commands[history[currentIndex + 1]])} :
         LET c == history[currentIndex + 1]
             ok == r.err = "none"
             cmds1 == [commands EXCEPT ![c] = r.cmd]
         IN  /\ WithinBounds(r.w)
             /\ SetWorld(r.w)
             /\ commands' = cmds1
             /\ currentIndex' = IndexAfterRedo(ok, currentIndex)
             /\ last' = Call("redo", r.cmd.kind, c, r.err)
             /\ ghost' = NextGhost(IF ok /\ r.cmd.kind = "AddOperation"
                                   THEN c ELSE 0, cmds1, r.w.accounts)
             /\ UNCHANGED history
             /\ Track
             /\ ProxyFrame
    ELSE /\ last' = NoCall("redo")
         /\ UNCHANGED <<accounts, accountRepo, operations, operationRepo,
                        categories, categoryRepo, commands, history,
                        currentIndex, ghost>>
         /\ Track
         /\ ProxyFrame

\* CommandHistory::clear
HistoryClear ==
    /\ history' = <<>>
    /\ currentIndex' = 0
    /\ last' = NoCall("clear")
    /\ UNCHANGED <<accounts, accountRepo, operations, operationRepo,
                   categories, categoryRepo, commands, ghost>>
    /\ Track
    /\ ProxyFrame

\* AccountFacade::activateAccount / deactivateAccount
SetActive(id, flag) ==
    /\ RepoFindById(accountRepo, id)
    /\ accounts' = [accounts EXCEPT
                       ![id] = IF flag THEN activate(@) ELSE deactivate(@)]
    /\ accountRepo' = RepoUpdate(accountRepo, id).repo
    /\ last' = NoCall(IF flag THEN "activate" ELSE "deactivate")
    /\ UNCHANGED <<operations, operationRepo, categories, categoryRepo,
                   commands, history, currentIndex, ghost>>
    /\ Track
    /\ ProxyFrame

ActivateAccount == \E id \in AccountIds : SetActive(id, TRUE)

DeactivateAccount == \E id \in AccountIds : SetActive(id, FALSE)

\* a session of command submissions, undo, redo and clear
Next ==
    \/ SubmitCreateAccount(InitialBalances)
    \/ SubmitAddOperation(Amounts)
    \/ SubmitTransfer(Amounts)
    \/ SubmitBase
    \/ Resubmit
    \/ HistoryUndo
    \/ HistoryRedo
    \/ HistoryClear

Spec == Init /\ [][Next]_vars

\* a session in which accounts are also activated and deactivated
NextActive ==
    \/ SubmitCreateAccount(FewBalances)
    \/ SubmitAddOperation(FewAmounts)
    \/ SubmitTransfer(FewAmounts)
    \/ HistoryUndo
    \/ HistoryRedo
    \/ HistoryClear
    \/ ActivateAccount
    \/ DeactivateAccount

SpecActive == Init /\ [][NextActive]_vars

(***************************************************************************)
(* Commands built by a caller with a description of any length and         *)
(* submitted to a CommandHistory.                                          *)
(***************************************************************************)
Descriptions == {0, MAX_DESCRIPTION_LENGTH + 1}
CategoryDescriptions == Descriptions \cup {CategoryDescriptionLength + 1}
CategoryNames == {"", "Food"}

Described(cmd, d) == [cmd EXCEPT !.description = d]

\* OperationFacade::createCategory
CreateCategoryCommand(type, name, d) ==
    Described(NewCommand("CreateCategory", name, type, 0, 0, NoMoney, 0), d)

SubmitCreateCategory ==
    \E type \in OperationTypes, name \in CategoryNames,
       d \in CategoryDescriptions :
        Submit(CreateCategoryCommand(type, name, d))

SubmitDescribedAddOperation ==
    \E type \in OperationTypes, a \in AccountIds, m \in FewAmounts,
       k \in CategoryIds, d \in Descriptions :
        Submit(Described(AddOperationCommand(type, a, m, k), d))

SubmitDescribedTransfer ==
    \E from \in AccountIds, to \in AccountIds, m \in FewAmounts,
       d \in Descriptions :
        Submit(Described(TransferCommand(from, to, m), d))

NextDescribed ==
    \/ SubmitCreateAccount(InitialBalances)
    \/ SubmitCreateCategory
    \/ SubmitDescribedAddOperation
    \/ SubmitDescribedTransfer
    \/ HistoryUndo

SpecDescribed == Init /\ [][NextDescribed]_vars

(***************************************************************************)
(* Commands driven directly (BaseCommand::execute / undo called by a       *)
(* holder of the command object, without a CommandHistory).                *)
(***************************************************************************)
CreateCommand(cmd) ==
    /\ Len(commands) < MaxCommands
    /\ commands' = Append(commands, cmd)
    /\ last' = Call("new", cmd.kind, Len(commands) + 1, "none")
    /\ UNCHANGED <<accounts, accountRepo, operations, operationRepo,
                   categories, categoryRepo, history, currentIndex, ghost, run>>
    /\ ProxyFrame

NewCreateAccount ==
    \E b \in FewBalances : CreateCommand(CreateAccountCommand("Main", b))

NewAddOperation ==
    \E type \in OperationTypes, a \in AccountIds, m \in FewAmounts,
       k \in CategoryIds :
        CreateCommand(AddOperationCommand(type, a, m, k))

NewTransfer ==
    \E from \in AccountIds, to \in AccountIds, m \in FewAmounts :
        CreateCommand(TransferCommand(from, to, m))

NewBase == CreateCommand(NewCommand("Base", "", "-", 0, 0, NoMoney, 0))

\* command->execute()
CmdExecute(c) ==
    \E r \in {CommandExecute(World, commands[c])} :
        /\ WithinBounds(r.w)
        /\ SetWorld(r.w)
        /\ commands' = [commands EXCEPT ![c] = r.cmd]
        /\ last' = Call("cmd.execute", r.cmd.kind, c, r.err)
        /\ UNCHANGED <<history, currentIndex, ghost, run>>
        /\ ProxyFrame

\* command->undo()
CmdUndo(c) ==
    \E r \in {CommandUndo(World, commands[c])} :
        /\ SetWorld(r.w)
        /\ commands' = [commands EXCEPT ![c] = r.cmd]
        /\ last' = Call("cmd.undo", r.cmd.kind, c, r.err)
        /\ UNCHANGED <<history, currentIndex, ghost, run>>
        /\ ProxyFrame

DirectExecute == \E c \in DOMAIN commands : CmdExecute(c)

DirectUndo == \E c \in DOMAIN commands : CmdUndo(c)

NextCommand ==
    \/ NewCreateAccount
    \/ NewAddOperation
    \/ NewTransfer
    \/ NewBase
    \/ DirectExecute
    \/ DirectUndo

SpecCommand == Init /\ [][NextCommand]_vars

(***************************************************************************)
(* BankAccount objects driven directly: two accounts, any opening balance  *)
(* and currency, and the entity's mutators called in any order.            *)
(***************************************************************************)
MaxBalance == 10000
EntityIds == {1, 2}
EntityBalances == {0, 5000}

InitAccount ==
    /\ accounts \in [EntityIds ->
                        {BankAccount(Money(b, cur)) :
                             b \in EntityBalances, cur \in Currencies}]
    /\ accountRepo = {}
    /\ operations = <<>>
    /\ operationRepo = {}
    /\ categories = <<>>
    /\ categoryRepo = {}
    /\ commands = <<>>
    /\ history = <<>>
    /\ currentIndex = 0
    /\ last = NoCall("init")
    /\ ghost = <<>>
    /\ run = <<>>
    /\ NoProxy

EntityFrame ==
    /\ UNCHANGED <<accountRepo, operations, operationRepo, categories,
                   categoryRepo, commands, history, currentIndex, ghost, run>>
    /\ ProxyFrame

\* accounts[i].deposit(m)
AccountDeposit(i, m) ==
    LET r == deposit(accounts[i], m)
    IN  /\ r.acc.balance.amount <= MaxBalance
        /\ accounts' = [accounts EXCEPT ![i] = r.acc]
        /\ last' = Call("deposit", "-", i, r.err)
        /\ EntityFrame

\* accounts[i].withdraw(m)
AccountWithdraw(i, m) ==
    LET r == withdraw(accounts[i], m)
    IN  /\ accounts' = [accounts EXCEPT ![i] = r.acc]
        /\ last' = Call("withdraw", "-", i, r.err)
        /\ EntityFrame

\* inside accounts[i].transfer(accounts[j], m) the withdrawal succeeds and
\* the deposit then raises
DepositFailsAfterWithdraw(i, j, m) ==
    /\ accounts[i].isActive /\ accounts[j].isActive
    /\ i # j
    /\ withdraw(accounts[i], m).err = "none"
    /\ deposit(accounts[j], m).err # "none"

\* accounts[i].transfer(accounts[j], m); i = j passes the object to itself
AccountTransfer(i, j, m) ==
    LET r == transfer(accounts[i], i, accounts[j], j, m)
    IN  /\ r.to.balance.amount <= MaxBalance
        /\ accounts' = IF i = j THEN accounts
                       ELSE [accounts EXCEPT ![i] = r.from, ![j] = r.to]
        /\ last' = Call("transfer",
                         IF DepositFailsAfterWithdraw(i, j, m)
                         THEN "compensated" ELSE "-", i, r.err)
        /\ EntityFrame

AccountSetActive(i, flag) ==
    /\ accounts' = [accounts EXCEPT
                       ![i] = IF flag THEN activate(@) ELSE deactivate(@)]
    /\ last' = Call(IF flag THEN "activate" ELSE "deactivate", "-", i, "none")
    /\ EntityFrame

EntityAmounts == {Money(m, cur) : m \in Amounts, cur \in Currencies}

Deposit == \E i \in EntityIds, m \in EntityAmounts : AccountDeposit(i, m)

Withdraw == \E i \in EntityIds, m \in EntityAmounts : AccountWithdraw(i, m)

Transfer ==
    \E i \in EntityIds, j \in EntityIds, m \in EntityAmounts :
        AccountTransfer(i, j, m)

Activate == \E i \in EntityIds : AccountSetActive(i, TRUE)

Deactivate == \E i \in EntityIds : AccountSetActive(i, FALSE)

NextAccount ==
    \/ Deposit
    \/ Withdraw
    \/ Transfer
    \/ Activate
    \/ Deactivate

SpecAccount == InitAccount /\ [][NextAccount]_vars

(***************************************************************************)
(* One caller of a CachingRepositoryProxy: every call runs to its end      *)
(* before the next one begins, and the clock advances between calls.       *)
(***************************************************************************)
MaxTime == 3

SessionFrame ==
    UNCHANGED <<accounts, accountRepo, operations, operationRepo, categories,
                categoryRepo, commands, history, currentIndex, last, ghost,
                run, inTransaction>>

SequentialFrame ==
    /\ SessionFrame
    /\ UNCHANGED <<mutex, threads>>

\* CachingRepositoryProxy::invalidateCache: cache_.clear()
invalidateCache_Keep == cache

invalidateCache == EmptyMap

\* CachingRepositoryProxy::save
ProxySave(e) ==
    /\ storage' = StorageSave(storage, e)
    /\ cache' = cacheEntity(cache, e, now, cacheDuration)
    /\ reply' = Reply("save", e.id, e, NoObject, {}, 1, "none",
                      Cached(cache, e.id, now))
    /\ UNCHANGED <<cacheDuration, now>>
    /\ SequentialFrame

\* CachingRepositoryProxy::update: the repository throws for an unknown id
\* before the cache is touched
ProxyUpdate(e) ==
    \E r \in {StorageUpdate(storage, e)} :
        /\ storage' = r.storage
        /\ cache' = IF r.err = "none"
                    THEN cacheEntity(cache, e, now, cacheDuration)
                    ELSE cache
        /\ reply' = Reply("update", e.id, e, NoObject, {}, 1, r.err,
                          Cached(cache, e.id, now))
        /\ UNCHANGED <<cacheDuration, now>>
        /\ SequentialFrame

\* CachingRepositoryProxy::remove
ProxyRemove(id) ==
    /\ storage' = StorageRemove(storage, id)
    /\ cache' = cacheErase(cache, id)
    /\ reply' = Reply("remove", id, NoObject, NoObject, {}, 1, "none",
                      Cached(cache, id, now))
    /\ UNCHANGED <<cacheDuration, now>>
    /\ SequentialFrame

\* CachingRepositoryProxy::findById
ProxyFindById(id) ==
    \E r \in {findById(storage, cache, cacheDuration, id, now)} :
        /\ cache' = r.cache
        /\ reply' = Reply("findById", id, NoObject, r.result, {},
                          r.repoCalls, "none", Cached(cache, id, now))
        /\ UNCHANGED <<storage, cacheDuration, now>>
        /\ SequentialFrame

\* CachingRepositoryProxy::findAll
ProxyFindAll ==
    \E all \in {StorageFindAll(storage)} :
        /\ cache' = cacheAll(cache, all, now, cacheDuration)
        /\ reply' = Reply("findAll", 0, NoObject, NoObject, all, 1, "none",
                          NoObject)
        /\ UNCHANGED <<storage, cacheDuration, now>>
        /\ SequentialFrame

\* clear that empties the repository and leaves the cache
ProxyClear_NoInvalidate ==
    /\ storage' = EmptyMap
    /\ cache' = cache
    /\ reply' = Reply("clear", 0, NoObject, NoObject, {}, 1, "none", NoObject)
    /\ UNCHANGED <<cacheDuration, now>>
    /\ SequentialFrame

\* CachingRepositoryProxy::clear
ProxyClear ==
    /\ storage' = EmptyMap
    /\ cache' = invalidateCache
    /\ reply' = Reply("clear", 0, NoObject, NoObject, {}, 1, "none", NoObject)
    /\ UNCHANGED <<cacheDuration, now>>
    /\ SequentialFrame

\* CachingRepositoryProxy::setCacheDuration
ProxySetCacheDuration(d) ==
    /\ cacheDuration' = d
    /\ cache' = invalidateCache
    /\ reply' = Reply("setCacheDuration", 0, NoObject, NoObject, {}, 0,
                      "none", NoObject)
    /\ UNCHANGED <<storage, now>>
    /\ SequentialFrame

\* the steady clock advances
Tick ==
    /\ now < MaxTime
    /\ now' = now + 1
    /\ UNCHANGED <<storage, cache, cacheDuration, reply>>
    /\ SequentialFrame

Save == \E e \in Objects : ProxySave(e)
Update == \E e \in Objects : ProxyUpdate(e)
Remove == \E id \in ObjectIds : ProxyRemove(id)
FindById == \E id \in ObjectIds : ProxyFindById(id)
SetCacheDuration == \E d \in Durations : ProxySetCacheDuration(d)

NextCache ==
    \/ Save
    \/ Update
    \/ Remove
    \/ FindById
    \/ ProxyFindAll
    \/ ProxyClear
    \/ SetCacheDuration
    \/ Tick

SpecCache == Init /\ [][NextCache]_vars

(***************************************************************************)
(* Several threads calling one CachingRepositoryProxy.  A call is a        *)
(* sequence of critical sections, each under one std::lock_guard: a thread *)
(* at "lookup" or "store" waits for cacheMutex_, a thread at "repo" waits  *)
(* for the repository's mutex_, and "lookup!", "store!" and "repo!" are    *)
(* the sections themselves.  The clock stands still.                       *)
(***************************************************************************)
ProxyOps ==
    {"save", "update", "remove", "findById", "findAll", "count", "clear"}

CallFrame ==
    /\ SessionFrame
    /\ UNCHANGED <<cacheDuration, now, reply>>

\* the call returns to its caller when its last section is left; the
\* value it hands back is Returned(t)
Advance(t, th) ==
    IF th.pc = "done"
    THEN threads' = [threads EXCEPT ![t] = IdleThread]
    ELSE threads' = [threads EXCEPT ![t] = th]

\* a thread calls an operation of the proxy: findById begins with the
\* cache, every other operation with the real repository
Begin(t, op, e) ==
    /\ threads[t].pc = "idle"
    /\ threads' =
           [threads EXCEPT ![t] =
               [IdleThread EXCEPT
                   !.op = op,
                   !.pc = IF op = "findById" THEN "lookup" ELSE "repo",
                   !.id = IF op \in {"findAll", "count", "clear"}
                          THEN 0 ELSE e.id,
                   !.arg = IF op \in {"save", "update"} THEN e ELSE NoObject,
                   !.seen = IF op = "findById"
                            THEN {StorageFindById(storage, e.id)} ELSE {}]]
    /\ UNCHANGED <<storage, cache, mutex>>
    /\ CallFrame

\* std::lock_guard<std::mutex> lock(cacheMutex_)
LockCache(t) ==
    /\ threads[t].pc \in {"lookup", "store"}
    /\ mutex.cache = 0
    /\ mutex' = [mutex EXCEPT !.cache = t]
    /\ threads' = [threads EXCEPT ![t].pc =
                       IF threads[t].pc = "lookup" THEN "lookup!" ELSE "store!"]
    /\ UNCHANGED <<storage, cache>>
    /\ CallFrame

\* std::lock_guard<std::mutex> lock(mutex_) in InMemoryRepository
LockRepo(t) ==
    /\ threads[t].pc = "repo"
    /\ mutex.repo = 0
    /\ mutex' = [mutex EXCEPT !.repo = t]
    /\ threads' = [threads EXCEPT ![t].pc = "repo!"]
    /\ UNCHANGED <<storage, cache>>
    /\ CallFrame

\* the end of the block that looks the id up in findById: the lock_guard
\* of the block is destroyed on both ways out of it
ReleasedAfterLookup_OnHit(m, hit) ==
    IF hit THEN [m EXCEPT !.cache = 0] ELSE m

ReleasedAfterLookup(m, hit) == [m EXCEPT !.cache = 0]

\* the first block of findById
Lookup(t) ==
    /\ threads[t].pc = "lookup!"
    /\ \E hit \in {cacheHit(cache, threads[t].id, now)} :
           /\ mutex' = ReleasedAfterLookup(mutex, hit)
           /\ Advance(t, IF hit
                         THEN [threads[t] EXCEPT
                                  !.result = cache[threads[t].id].data,
                                  !.pc = "done"]
                         ELSE [threads[t] EXCEPT !.pc = "repo"])
    /\ UNCHANGED <<storage, cache>>
    /\ CallFrame

\* what the call of the real repository does inside a proxy operation:
\* the storage it leaves and the thread as it goes on
Outcome(s, th) == [storage |-> s, thread |-> th]

RepoOutcome(s, th) ==
    CASE th.op = "save" ->
           Outcome(StorageSave(s, th.arg),
                   [th EXCEPT !.todo = {th.arg}, !.pc = "store"])
      [] th.op = "update" ->
           IF StorageUpdate(s, th.arg).err = "none"
           THEN Outcome(StorageUpdate(s, th.arg).storage,
                        [th EXCEPT !.todo = {th.arg}, !.pc = "store"])
           ELSE Outcome(s, [th EXCEPT !.err = "NotFound", !.pc = "done"])
      [] th.op = "remove" ->
           Outcome(StorageRemove(s, th.id), [th EXCEPT !.pc = "store"])
      [] th.op = "findById" ->
           IF StorageFindById(s, th.id) # NoObject
           THEN Outcome(s, [th EXCEPT !.result = StorageFindById(s, th.id),
                                      !.todo = {StorageFindById(s, th.id)},
                                      !.pc = "store"])
           ELSE Outcome(s, [th EXCEPT !.pc = "done"])
      [] th.op = "findAll" ->
           Outcome(s, [th EXCEPT !.all = StorageFindAll(s),
                                 !.todo = StorageFindAll(s),
                                 !.pc = IF StorageFindAll(s) = {}
                                        THEN "done" ELSE "store"])
      [] th.op = "count" ->
           Outcome(s, [th EXCEPT !.pc = "done"])
      [] th.op = "clear" ->
           Outcome(EmptyMap, [th EXCEPT !.pc = "store"])

\* every findById in progress has one more value of the repository to
\* its id within its span
Witnessed(ths, s) ==
    [u \in DOMAIN ths |->
        IF ths[u].op = "findById"
        THEN [ths[u] EXCEPT !.seen = @ \cup {StorageFindById(s, ths[u].id)}]
        ELSE ths[u]]

\* realRepository_->save / update / remove / findById / findAll / count /
\* clear, under the repository's own lock
RepoCall(t) ==
    /\ threads[t].pc = "repo!"
    /\ \E r \in {RepoOutcome(storage, threads[t])} :
           /\ storage' = r.storage
           /\ threads' = IF r.thread.pc = "done"
                         THEN [Witnessed(threads, r.storage)
                                   EXCEPT ![t] = IdleThread]
                         ELSE Witnessed([threads EXCEPT ![t] = r.thread],
                                        r.storage)
    /\ mutex' = [mutex EXCEPT !.repo = 0]
    /\ UNCHANGED cache
    /\ CallFrame

\* cacheEntity (once for each entity to cache), cache_.erase(id) in remove,
\* invalidateCache in clear
CacheWrite(t) ==
    /\ threads[t].pc = "store!"
    /\ IF threads[t].op = "remove"
       THEN /\ cache' = cacheErase(cache, threads[t].id)
            /\ Advance(t, [threads[t] EXCEPT !.pc = "done"])
       ELSE IF threads[t].op = "clear"
       THEN /\ cache' = invalidateCache
            /\ Advance(t, [threads[t] EXCEPT !.pc = "done"])
       ELSE \E e \in threads[t].todo :
                /\ cache' = cacheEntity(cache, e, now, cacheDuration)
                /\ Advance(t, [threads[t] EXCEPT
                                  !.todo = @ \ {e},
                                  !.pc = IF threads[t].todo = {e}
                                         THEN "done" ELSE "store"])
    /\ mutex' = [mutex EXCEPT !.cache = 0]
    /\ UNCHANGED storage
    /\ CallFrame

BeginCall == \E t \in Threads, op \in ProxyOps, e \in Objects : Begin(t, op, e)

\* the steps a thread takes inside a call
Step(t) == LockCache(t) \/ LockRepo(t) \/ Lookup(t) \/ RepoCall(t) \/ CacheWrite(t)

NextProxy ==
    \/ BeginCall
    \/ \E t \in Threads : LockCache(t)
    \/ \E t \in Threads : LockRepo(t)
    \/ \E t \in Threads : Lookup(t)
    \/ \E t \in Threads : RepoCall(t)
    \/ \E t \in Threads : CacheWrite(t)

SpecProxy == Init /\ [][NextProxy]_vars

\* the value a findById that leaves its last section hands to its caller:
\* the cached data on a hit, else the answer of the repository
Returned(t) ==
    IF threads[t].pc = "lookup!"
    THEN cache[threads[t].id].data
    ELSE threads[t].result

Returns(t) == threads[t].pc # "idle" /\ threads'[t].pc = "idle"

(***************************************************************************)
(* The same threads with one object to each id, under a scheduler that     *)
(* lets every thread run and hands a mutex that is free again and again to *)
(* every thread waiting for it.                                            *)
(***************************************************************************)
PlainObjects == {e \in Objects : e.ver = 1}

BeginPlainCall ==
    \E t \in Threads, op \in ProxyOps, e \in PlainObjects : Begin(t, op, e)

NextProxyFair ==
    \/ BeginPlainCall
    \/ \E t \in Threads : LockCache(t)
    \/ \E t \in Threads : LockRepo(t)
    \/ \E t \in Threads : Lookup(t)
    \/ \E t \in Threads : RepoCall(t)
    \/ \E t \in Threads : CacheWrite(t)

SpecProxyFair ==
    /\ Init
    /\ [][NextProxyFair]_vars
    /\ \A t \in Threads :
           /\ WF_vars(Lookup(t) \/ RepoCall(t) \/ CacheWrite(t))
           /\ SF_vars(LockCache(t))
           /\ SF_vars(LockRepo(t))

(***************************************************************************)
(* Several threads calling one InMemoryRepository directly.  A thread at   *)
(* "repo" waits for mutex_; "body", "assign" and "scan" are statements of  *)
(* a method run under the lock_guard; at "returned" the caller has the     *)
(* result.  snap is the storage the method found when it took the lock.    *)
(***************************************************************************)
InBody == {"body", "assign", "scan"}

MemFrame ==
    /\ SessionFrame
    /\ UNCHANGED <<cache, cacheDuration, now, reply>>

\* a thread calls a method of the repository
MemInvoke(t, op, e) ==
    /\ threads[t].pc \in {"idle", "returned"}
    /\ threads' =
           [threads EXCEPT ![t] =
               [IdleThread EXCEPT
                   !.op = op,
                   !.pc = "repo",
                   !.id = IF op \in {"findAll", "count", "clear"}
                          THEN 0 ELSE e.id,
                   !.arg = IF op \in {"save", "update"} THEN e ELSE NoObject]]
    /\ UNCHANGED <<storage, mutex>>
    /\ MemFrame

\* std::mutex::lock blocks while another thread holds the mutex
mutexFree_Always(m) == TRUE

mutexFree(m) == m.repo = 0

\* std::lock_guard<std::mutex> lock(mutex_), the first statement of every
\* method
MemLock(t) ==
    /\ threads[t].pc = "repo"
    /\ mutexFree(mutex)
    /\ mutex' = [mutex EXCEPT !.repo = t]
    /\ threads' = [threads EXCEPT ![t].pc = "body", ![t].snap = storage]
    /\ UNCHANGED storage
    /\ MemFrame

\* the statement after the lock_guard -> the storage and the thread it
\* leaves; a thread that leaves at "returned" has left the method
MemStatement(s, th) ==
    CASE th.op = "save" ->
           Outcome(StorageSave(s, th.arg), [th EXCEPT !.pc = "returned"])
      [] th.op = "update" ->
           IF th.id \in DOMAIN s
           THEN Outcome(s, [th EXCEPT !.pc = "assign"])
           ELSE Outcome(s, [th EXCEPT !.err = "NotFound",
                                      !.pc = "returned"])
      [] th.op = "remove" ->
           Outcome(StorageRemove(s, th.id), [th EXCEPT !.pc = "returned"])
      [] th.op = "findById" ->
           Outcome(s, [th EXCEPT !.result = StorageFindById(s, th.id),
                                 !.pc = "returned"])
      [] th.op = "findAll" ->
           Outcome(s, [th EXCEPT !.todo = DOMAIN s,
                                 !.pc = IF DOMAIN s = {}
                                        THEN "returned" ELSE "scan"])
      [] th.op = "count" ->
           Outcome(s, [th EXCEPT !.count = StorageCount(s),
                                 !.pc = "returned"])
      [] th.op = "clear" ->
           Outcome(EmptyMap, [th EXCEPT !.pc = "returned"])

\* the lock_guard is destroyed when the method is left
MemLeave(r, t) ==
    /\ storage' = r.storage
    /\ threads' = [threads EXCEPT ![t] = r.thread]
    /\ mutex' = IF r.thread.pc = "returned"
                THEN [mutex EXCEPT !.repo = 0]
                ELSE mutex
    /\ MemFrame

MemBody(t) ==
    /\ threads[t].pc = "body"
    /\ \E r \in {MemStatement(storage, threads[t])} : MemLeave(r, t)

\* update: storage_[entity->getId()] = entity, after the id was found
MemAssign(t) ==
    /\ threads[t].pc = "assign"
    /\ \E r \in {Outcome(StorageSave(storage, threads[t].arg),
                         [threads[t] EXCEPT !.pc = "returned"])} :
           MemLeave(r, t)

\* findAll: one turn of the loop over storage_; todo holds the ids the
\* loop has not visited yet
MemScan(t) ==
    /\ threads[t].pc = "scan"
    /\ \E x \in threads[t].todo :
           \E r \in {Outcome(storage,
                        [threads[t] EXCEPT
                            !.all = IF x \in DOMAIN storage
                                    THEN @ \cup {storage[x]} ELSE @,
                            !.todo = @ \ {x},
                            !.pc = IF threads[t].todo = {x}
                                   THEN "returned" ELSE "scan"])} :
               MemLeave(r, t)

NextRepository ==
    \/ \E t \in Threads, op \in ProxyOps, e \in Objects : MemInvoke(t, op, e)
    \/ \E t \in Threads : MemLock(t)
    \/ \E t \in Threads : MemBody(t)
    \/ \E t \in Threads : MemAssign(t)
    \/ \E t \in Threads : MemScan(t)

SpecRepository == Init /\ [][NextRepository]_vars

\* the method called alone on storage s: what it leaves and what it
\* returns
Sequential(s, th) ==
    CASE th.op = "save" ->
           [storage |-> StorageSave(s, th.arg), thread |-> th]
      [] th.op = "update" ->
           [storage |-> StorageUpdate(s, th.arg).storage,
            thread |-> [th EXCEPT !.err = StorageUpdate(s, th.arg).err]]
      [] th.op = "remove" ->
           [storage |-> StorageRemove(s, th.id), thread |-> th]
      [] th.op = "findById" ->
           [storage |-> s,
            thread |-> [th EXCEPT !.result = StorageFindById(s, th.id)]]
      [] th.op = "findAll" ->
           [storage |-> s, thread |-> [th EXCEPT !.all = StorageFindAll(s)]]
      [] th.op = "count" ->
           [storage |-> s, thread |-> [th EXCEPT !.count = StorageCount(s)]]
      [] th.op = "clear" ->
           [storage |-> EmptyMap, thread |-> th]

(***************************************************************************)
(* BankAccount objects held by the account repository and reached through  *)
(* the pointers findById returns: storage_ keeps std::shared_ptr, so the   *)
(* object a caller mutates is the object the repository holds.             *)
(***************************************************************************)
InitShared ==
    /\ accounts \in [EntityIds ->
                        {BankAccount(Money(b, cur)) :
                             b \in EntityBalances, cur \in Currencies}]
    /\ accountRepo = EntityIds
    /\ operations = <<>>
    /\ operationRepo = {}
    /\ categories = <<>>
    /\ categoryRepo = {}
    /\ commands = <<>>
    /\ history = <<>>
    /\ currentIndex = 0
    /\ last = NoCall("init")
    /\ ghost = <<>>
    /\ run = <<>>
    /\ NoProxy

\* accountRepo_->update(account) with the pointer obtained from findById
StoredUpdate(i) ==
    \E r \in {RepoUpdate(accountRepo, i)} :
        /\ accountRepo' = r.repo
        /\ last' = Call("update", "-", i, r.err)
        /\ UNCHANGED <<accounts, operations, operationRepo, categories,
                       categoryRepo, commands, history, currentIndex, ghost,
                       run>>
        /\ ProxyFrame

UpdateAccount == \E i \in EntityIds : StoredUpdate(i)

\* what findById(id) and findAll() show of the stored accounts
Observed == [i \in accountRepo |-> accounts[i]]

NextShared ==
    \/ Deposit
    \/ Withdraw
    \/ Transfer
    \/ Activate
    \/ Deactivate
    \/ UpdateAccount

SpecShared == InitShared /\ [][NextShared]_vars

(***************************************************************************)
(* A session in which accounts are also deleted through the facade.        *)
(***************************************************************************)
\* AccountFacade::deleteAccount
DeleteAccount(id) ==
    /\ accountRepo' = IF /\ RepoFindById(accountRepo, id)
                         /\ isZero(accounts[id].balance)
                      THEN RepoRemove(accountRepo, id)
                      ELSE accountRepo
    /\ last' = Call("delete", "-", 0,
                    IF ~RepoFindById(accountRepo, id) THEN "NotFound"
                    ELSE IF ~isZero(accounts[id].balance) THEN "Domain"
                    ELSE "none")
    /\ UNCHANGED <<accounts, operations, operationRepo, categories,
                   categoryRepo, commands, history, currentIndex, ghost>>
    /\ Track
    /\ ProxyFrame

DeleteAnAccount == \E id \in AccountIds : DeleteAccount(id)

NextRemoval ==
    \/ SubmitCreateAccount(InitialBalances)
    \/ SubmitAddOperation(Amounts)
    \/ HistoryUndo
    \/ HistoryRedo
    \/ DeleteAnAccount

SpecRemoval == Init /\ [][NextRemoval]_vars

(***************************************************************************)
(* A session of undo and redo over commands of every kind, one of which    *)
(* cannot be undone, while accounts are deactivated and deleted.           *)
(***************************************************************************)
NextUndoRedo ==
    \/ SubmitCreateAccount(FewBalances)
    \/ SubmitCreateCategory
    \/ SubmitAddOperation(FewAmounts)
    \/ SubmitBase
    \/ HistoryUndo
    \/ HistoryRedo
    \/ DeactivateAccount
    \/ DeleteAnAccount

SpecUndoRedo == Init /\ [][NextUndoRedo]_vars

(***************************************************************************)
(* A session in which BalanceReconciliationService is also called.         *)
(* Operations reach the repository through processOperation only, whose    *)
(* deposit / withdraw rejects a foreign currency before the save, so the   *)
(* fold of checkAccountBalance adds amounts of the account's currency.     *)
(***************************************************************************)
\* a service that never repairs
needsFix_Never(hasDiscrepancy, autoFix) == FALSE

\* recalculateBalance: if (result.hasDiscrepancy && autoFix)
needsFix(hasDiscrepancy, autoFix) == hasDiscrepancy /\ autoFix

\* BalanceReconciliationService::recalculateBalance -> [err, w]
reconcileBalance(w, accountId, autoFix) ==
    IF ~RepoFindById(w.accountRepo, accountId)
    THEN [err |-> "NotFound", w |-> w]
    ELSE LET result == checkAccountBalance(w, accountId) IN
         IF ~needsFix(result.hasDiscrepancy, autoFix)
         THEN [err |-> "none", w |-> w]
         ELSE LET r == recalculateBalance(w.accounts[accountId],
                                          result.calculatedBalance)
                  u == RepoUpdate(w.accountRepo, accountId)
              IN  IF r.err # "none" THEN [err |-> r.err, w |-> w]
                  ELSE [err |-> u.err,
                        w |-> [w EXCEPT !.accounts[accountId] = r.acc,
                                        !.accountRepo = u.repo]]

EntitiesFrame ==
    UNCHANGED <<accounts, accountRepo, operations, operationRepo,
                categories, categoryRepo>>

ServiceFrame ==
    /\ UNCHANGED <<commands, history, currentIndex, ghost>>
    /\ Track
    /\ ProxyFrame

RecalculateBalance(id, autoFix) ==
    /\ \E r \in {reconcileBalance(World, id, autoFix)} :
           /\ SetWorld(r.w)
           /\ last' = Call("recalculateBalance", "-", 0, r.err)
    /\ ServiceFrame

\* BalanceReconciliationService::checkAccountBalance, its result dropped
CheckAccountBalance(id) ==
    /\ EntitiesFrame
    /\ last' = Call("checkAccountBalance", "-", 0,
                    IF RepoFindById(accountRepo, id) THEN "none"
                    ELSE "NotFound")
    /\ ServiceFrame

\* BalanceReconciliationService::checkAllBalances: checkAccountBalance of
\* every account findAll returned, none of which is absent
CheckAllBalances ==
    /\ EntitiesFrame
    /\ last' = Call("checkAllBalances", "-", 0, "none")
    /\ ServiceFrame

Recalculate == \E id \in AccountIds, autoFix \in BOOLEAN : RecalculateBalance(id, autoFix)

CheckAnAccount == \E id \in AccountIds : CheckAccountBalance(id)

NextReconcile ==
    \/ SubmitCreateAccount(FewBalances)
    \/ SubmitAddOperation(FewAmounts)
    \/ HistoryUndo
    \/ HistoryRedo
    \/ Recalculate
    \/ CheckAnAccount
    \/ CheckAllBalances

SpecReconcile == Init /\ [][NextReconcile]_vars

(***************************************************************************)
(* One Category object and its setters.  A colour is the sequence of its   *)
(* characters; a name and a description are modelled by their lengths.     *)
(***************************************************************************)
CategoryNameLength == 50

HexDigits ==
    {"0", "1", "2", "3", "4", "5", "6", "7", "8", "9",
     "a", "b", "c", "d", "e", "f", "A", "B", "C", "D", "E", "F"}

\* Validator::validateColor returns normally:
\* non-empty and matching ^#[0-9A-Fa-f]{3}([0-9A-Fa-f]{3})?$
validateColor(color) ==
    /\ color # <<>>
    /\ Len(color) \in {4, 7}
    /\ color[1] = "#"
    /\ \A i \in 2 .. Len(color) : color[i] \in HexDigits

DefaultColor == <<"#", "0", "0", "0", "0", "0", "0">>

Colors ==
    {<<>>, DefaultColor, <<"#", "a", "B", "9">>, <<"r", "e", "d">>,
     <<"#", "G", "G", "G">>, <<"#", "1", "2", "3", "4">>}

CategoryNameLengths == {0, 1, CategoryNameLength, CategoryNameLength + 1}
CategoryDescriptionLengths ==
    {0, CategoryDescriptionLength, CategoryDescriptionLength + 1}
Icons == {"default", "income"}

CatResult(err, cat) == [err |-> err, cat |-> cat]

\* Category::validate on the fields (the id comes from IdGenerator)
validateCategory(cat) ==
    /\ validateColor(cat.color)
    /\ cat.name # 0
    /\ cat.name <= CategoryNameLength
    /\ cat.description <= CategoryDescriptionLength

\* the objects the constructor returns
ConstructedCategories ==
    {cat \in [type : OperationTypes, name : CategoryNameLengths,
              description : CategoryDescriptionLengths, color : Colors,
              icon : Icons] : validateCategory(cat)}

setName(cat, name) ==
    IF name = 0 THEN CatResult("Validation", cat)
    ELSE IF name > CategoryNameLength THEN CatResult("Validation", cat)
    ELSE CatResult("none", [cat EXCEPT !.name = name])

setDescription(cat, description) ==
    IF description > CategoryDescriptionLength
    THEN CatResult("Validation", cat)
    ELSE CatResult("none", [cat EXCEPT !.description = description])

\* validates the stored colour color_, then assigns the argument
setColor(cat, color) ==
    IF ~validateColor(cat.color) THEN CatResult("Validation", cat)
    ELSE CatResult("none", [cat EXCEPT !.color = color])

setIcon(cat, icon) == CatResult("none", [cat EXCEPT !.icon = icon])

InitCategory ==
    /\ accounts = <<>>
    /\ accountRepo = {}
    /\ operations = <<>>
    /\ operationRepo = {}
    /\ categories \in {<<cat>> : cat \in ConstructedCategories}
    /\ categoryRepo = {}
    /\ commands = <<>>
    /\ history = <<>>
    /\ currentIndex = 0
    /\ last = NoCall("init")
    /\ ghost = <<>>
    /\ run = <<>>
    /\ NoProxy

CategoryFrame ==
    /\ UNCHANGED <<accounts, accountRepo, operations, operationRepo,
                   categoryRepo, commands, history, currentIndex, ghost, run>>
    /\ ProxyFrame

\* a setter called on the category, r what it returned
CategorySet(op, r) ==
    /\ categories' = <<r.cat>>
    /\ last' = Call(op, "-", 0, r.err)
    /\ CategoryFrame

SetName(name) == CategorySet("setName", setName(categories[1], name))

SetDescription(description) ==
    CategorySet("setDescription", setDescription(categories[1], description))

SetColor(color) == CategorySet("setColor", setColor(categories[1], color))

SetIcon(icon) == CategorySet("setIcon", setIcon(categories[1], icon))

NextCategory ==
    \/ \E name \in CategoryNameLengths : SetName(name)
    \/ \E description \in CategoryDescriptionLengths : SetDescription(description)
    \/ \E color \in Colors : SetColor(color)
    \/ \E icon \in Icons : SetIcon(icon)

SpecCategory == InitCategory /\ [][NextCategory]_vars

(***************************************************************************)
(* Commands wrapped in a TransactionDecorator and driven directly.         *)
(***************************************************************************)
\* InMemoryUnitOfWork::begin / commit / rollback: the new inTransaction_
begin(open) == TRUE

commit(open) == FALSE

rollback(open) == FALSE

\* what rollback does to the repositories the command wrote to: nothing
rolledBack(w) == w

\* TransactionDecorator::execute / undo around the wrapped command's result r
\* -> [err, w, cmd, open]
Transaction(open, r) ==
    LET begun == begin(open)
    IN  IF r.err = "none"
        THEN [err |-> "none", w |-> r.w, cmd |-> r.cmd, open |-> commit(begun)]
        ELSE [err |-> r.err, w |-> rolledBack(r.w), cmd |-> r.cmd,
              open |-> rollback(begun)]

TransactionFrame ==
    /\ UNCHANGED <<history, currentIndex, ghost, run>>
    /\ RepositoryFrame

\* TransactionDecorator::execute
DecoratedExecute(c) ==
    \E r \in {Transaction(inTransaction, CommandExecute(World, commands[c]))} :
        /\ WithinBounds(r.w)
        /\ SetWorld(r.w)
        /\ commands' = [commands EXCEPT ![c] = r.cmd]
        /\ inTransaction' = r.open
        /\ last' = Call("tx.execute", r.cmd.kind, c, r.err)
        /\ TransactionFrame

\* TransactionDecorator::undo
DecoratedUndo(c) ==
    \E r \in {Transaction(inTransaction, CommandUndo(World, commands[c]))} :
        /\ SetWorld(r.w)
        /\ commands' = [commands EXCEPT ![c] = r.cmd]
        /\ inTransaction' = r.open
        /\ last' = Call("tx.undo", r.cmd.kind, c, r.err)
        /\ TransactionFrame

TransactionExecute == \E c \in DOMAIN commands : DecoratedExecute(c)

TransactionUndo == \E c \in DOMAIN commands : DecoratedUndo(c)

NextTransaction ==
    \/ NewCreateAccount
    \/ NewAddOperation
    \/ NewTransfer
    \/ TransactionExecute
    \/ TransactionUndo

SpecTransaction == Init /\ [][NextTransaction]_vars

(***************************************************************************)
(* Two threads, each executing one AddOperation command on the same        *)
(* account.  findById, save and update run under the repository's mutex    *)
(* and are one step each; BankAccount::deposit / withdraw run on the       *)
(* shared object outside every lock, so their reads and writes of balance_ *)
(* interleave: the guards read the object, and the assignment stores a     *)
(* value computed from a balance_ read at the guards or at the assignment. *)
(***************************************************************************)
SharedBalances == {0, 5000, 10000}

IdleWorker ==
    [pc |-> "idle", type |-> "-", amount |-> NoMoney, loaded |-> NoMoney,
     err |-> "none"]

InitConcurrent ==
    /\ accounts \in {<<NamedAccount("Main", Money(b, DefaultCurrency))>> :
                        b \in SharedBalances}
    /\ accountRepo = {1}
    /\ operations = <<>>
    /\ operationRepo = {}
    /\ categories = <<>>
    /\ categoryRepo = {}
    /\ commands = <<>>
    /\ history = <<>>
    /\ currentIndex = 0
    /\ last = NoCall("init")
    /\ ghost = <<[before |-> accounts[1].balance, clean |-> TRUE]>>
    /\ run = <<>>
    /\ storage = EmptyMap
    /\ cache = EmptyMap
    /\ cacheDuration = DefaultCacheDuration
    /\ now = 0
    /\ mutex = FreeMutexes
    /\ threads = [t \in Threads |-> IdleWorker]
    /\ reply = NoReply
    /\ inTransaction = FALSE

WorkerFrame ==
    UNCHANGED <<accountRepo, categories, categoryRepo, commands, history,
                currentIndex, last, ghost, run, storage, cache, cacheDuration,
                now, mutex, reply, inTransaction>>

\* a thread calls execute() of its AddOperation command
WorkerInvoke(t, type, m) ==
    /\ threads[t].pc = "idle"
    /\ threads' = [threads EXCEPT ![t] =
                       [IdleWorker EXCEPT !.pc = "find", !.type = type,
                                          !.amount = Money(m, DefaultCurrency)]]
    /\ UNCHANGED <<accounts, operations, operationRepo>>
    /\ WorkerFrame

\* accountRepo->findById under the mutex: the stored shared_ptr
WorkerFind(t) ==
    /\ threads[t].pc = "find"
    /\ threads' = [threads EXCEPT ![t].pc =
                       IF RepoFindById(accountRepo, 1) THEN "guard"
                       ELSE "returned",
                   ![t].err =
                       IF RepoFindById(accountRepo, 1) THEN "none"
                       ELSE "NotFound"]
    /\ UNCHANGED <<accounts, operations, operationRepo>>
    /\ WorkerFrame

\* the guards of deposit / withdraw, evaluated on the object as it is now
WorkerGuard(t) ==
    /\ threads[t].pc = "guard"
    /\ \E r \in {IF threads[t].type = "INCOME"
                 THEN deposit(accounts[1], threads[t].amount)
                 ELSE withdraw(accounts[1], threads[t].amount)} :
           threads' = [threads EXCEPT
                           ![t].pc = IF r.err = "none" THEN "store"
                                     ELSE "returned",
                           ![t].err = r.err,
                           ![t].loaded = accounts[1].balance]
    /\ UNCHANGED <<accounts, operations, operationRepo>>
    /\ WorkerFrame

\* balance_ = balance_.add(amount) / balance_.subtract(amount)
WorkerStore(t) ==
    /\ threads[t].pc = "store"
    /\ \E read \in {threads[t].loaded, accounts[1].balance} :
           accounts' = [accounts EXCEPT ![1].balance =
                            IF threads[t].type = "INCOME"
                            THEN MoneyAdd(read, threads[t].amount)
                            ELSE MoneySubtract(read, threads[t].amount)]
    /\ threads' = [threads EXCEPT ![t].pc = "save"]
    /\ UNCHANGED <<operations, operationRepo>>
    /\ WorkerFrame

\* operationRepo_->save(operation); accountRepo_->update(*account)
WorkerSave(t) ==
    /\ threads[t].pc = "save"
    /\ operations' = Append(operations,
                            [type |-> threads[t].type, bankAccountId |-> 1,
                             amount |-> threads[t].amount])
    /\ operationRepo' = RepoSave(operationRepo, Len(operations) + 1)
    /\ threads' = [threads EXCEPT
                       ![t].pc = "returned",
                       ![t].err = RepoUpdate(accountRepo, 1).err]
    /\ UNCHANGED accounts
    /\ WorkerFrame

NextConcurrent ==
    \/ \E t \in Threads, type \in OperationTypes, m \in FewAmounts :
           WorkerInvoke(t, type, m)
    \/ \E t \in Threads : WorkerFind(t)
    \/ \E t \in Threads : WorkerGuard(t)
    \/ \E t \in Threads : WorkerStore(t)
    \/ \E t \in Threads : WorkerSave(t)

SpecConcurrent == InitConcurrent /\ [][NextConcurrent]_vars

(***************************************************************************)
(* Two threads racing on one CachingRepositoryProxy built over a           *)
(* repository that holds object 1: thread 1 calls remove(1) or saves an    *)
(* object with id 2, thread 2 calls findById(1) or saves an object with    *)
(* id 2.  Calls on different ids touch different keys of storage_ and      *)
(* cache_.                                                                 *)
(***************************************************************************)
InitRace ==
    /\ accounts = <<>>
    /\ accountRepo = {}
    /\ operations = <<>>
    /\ operationRepo = {}
    /\ categories = <<>>
    /\ categoryRepo = {}
    /\ commands = <<>>
    /\ history = <<>>
    /\ currentIndex = 0
    /\ last = NoCall("init")
    /\ ghost = <<>>
    /\ run = <<>>
    /\ storage \in {StorageSave(EmptyMap, e) : e \in {o \in Objects : o.id = 1}}
    /\ cache = EmptyMap
    /\ cacheDuration = DefaultCacheDuration
    /\ now = 0
    /\ mutex = FreeMutexes
    /\ threads = [t \in Threads |-> IdleThread]
    /\ reply = NoReply
    /\ inTransaction = FALSE

BeginRemove == \E e \in {o \in Objects : o.id = 1} : Begin(1, "remove", e)

BeginFindById == \E e \in {o \in Objects : o.id = 1} : Begin(2, "findById", e)

BeginSave ==
    \E t \in Threads, e \in {o \in Objects : o.id = 2} : Begin(t, "save", e)

NextRace ==
    \/ BeginRemove
    \/ BeginFindById
    \/ BeginSave
    \/ \E t \in Threads : LockCache(t)
    \/ \E t \in Threads : LockRepo(t)
    \/ \E t \in Threads : Lookup(t)
    \/ \E t \in Threads : RepoCall(t)
    \/ \E t \in Threads : CacheWrite(t)

SpecRace == InitRace /\ [][NextRace]_vars

(***************************************************************************)
(* A session in which operations are also edited and deleted through the   *)
(* OperationFacade and balances are repaired by the reconciliation         *)
(* service.                                                                *)
(***************************************************************************)
OperationIds == 1 .. MaxOperations
NewAmounts == {0, 2000}
NewDescriptions == {0, MAX_DESCRIPTION_LENGTH + 1}

\* Operation::setAmount -> [err, op]
setAmount(op, amount) ==
    IF ~isPositive(amount) THEN [err |-> "Validation", op |-> op]
    ELSE [err |-> "none", op |-> [op EXCEPT !.amount = amount]]

\* Operation::setDescription -> [err, op]; the description is its length,
\* and the Operation objects of the model carry no description
setOperationDescription(op, description) ==
    IF description > MAX_DESCRIPTION_LENGTH
    THEN [err |-> "Validation", op |-> op]
    ELSE [err |-> "none", op |-> op]

\* OperationFacade::updateOperation -> [err, w]; the operation object is the
\* stored one, so what a setter assigned stays when a later statement raises
updateOperation(w, operationId, newAmount, newDescription) ==
    IF ~RepoFindById(w.operationRepo, operationId)
    THEN [err |-> "NotFound", w |-> w]
    ELSE LET a == setAmount(w.operations[operationId], newAmount)
             d == setOperationDescription(a.op, newDescription)
             w1 == [w EXCEPT !.operations[operationId] = d.op]
             u == RepoUpdate(w1.operationRepo, operationId)
         IN  IF a.err # "none" THEN [err |-> a.err, w |-> w]
             ELSE IF d.err # "none" THEN [err |-> d.err, w |-> w1]
             ELSE IF u.err # "none" THEN [err |-> u.err, w |-> w1]
             ELSE reconcileBalance(w1, w1.operations[operationId].bankAccountId,
                                   TRUE)

\* OperationFacade::deleteOperation -> [err, w]
deleteOperation(w, operationId) ==
    IF ~RepoFindById(w.operationRepo, operationId)
    THEN [err |-> "NotFound", w |-> w]
    ELSE reconcileBalance(
             [w EXCEPT !.operationRepo = RepoRemove(@, operationId)],
             w.operations[operationId].bankAccountId, TRUE)

UpdateOperation(operationId, newAmount, newDescription) ==
    /\ \E r \in {updateOperation(World, operationId, newAmount,
                                 newDescription)} :
           /\ SetWorld(r.w)
           /\ last' = Call("updateOperation", "-", 0, r.err)
    /\ ServiceFrame

DeleteOperation(operationId) ==
    /\ \E r \in {deleteOperation(World, operationId)} :
           /\ SetWorld(r.w)
           /\ last' = Call("deleteOperation", "-", 0, r.err)
    /\ ServiceFrame

Repair == \E id \in AccountIds : RecalculateBalance(id, TRUE)

NextFacade ==
    \/ SubmitCreateAccount(FewBalances)
    \/ SubmitAddOperation(FewAmounts)
    \/ HistoryUndo
    \/ HistoryRedo
    \/ Repair
    \/ \E o \in OperationIds, m \in NewAmounts, d \in NewDescriptions :
           UpdateOperation(o, Money(m, DefaultCurrency), d)
    \/ \E o \in OperationIds : DeleteOperation(o)

SpecFacade == Init /\ [][NextFacade]_vars

(***************************************************************************)
(* Properties.                                                             *)
(***************************************************************************)
WorldUnchanged ==
    UNCHANGED <<accounts, accountRepo, operations, operationRepo,
                categories, categoryRepo>>

\* the session so far is execute(A); execute(B); undo(); execute(C), each
\* call returning normally, with A, B, C three command objects
ScenarioABC ==
    /\ run # RunOff
    /\ Len(run) = 4
    /\ run[1].op = "execute"
    /\ run[2].op = "execute"
    /\ run[3].op = "undo"
    /\ run[4].op = "execute"
    /\ run[3].cmd = run[2].cmd
    /\ Cardinality({run[1].cmd, run[2].cmd, run[4].cmd}) = 3

HistoryIsAC ==
    ScenarioABC =>
        /\ history = <<run[1].cmd, run[4].cmd>>
        /\ currentIndex = 2
        /\ ~HistoryCanRedo

RedoAfterACIsNoOp ==
    (ScenarioABC /\ HistoryRedo) =>
        /\ WorldUnchanged
        /\ UNCHANGED <<commands, history, currentIndex>>

\* C1: after execute(A); execute(B); undo(); execute(C), all succeeding, the
\* history is exactly <<A, C>> with the cursor at 2: B is discarded, and a
\* redo() that follows changes nothing, so B is never applied again.
C1_RedoStackTruncated == []HistoryIsAC /\ [][RedoAfterACIsNoOp]_vars

C1_Witness == ScenarioABC /\ commands[run[2].cmd].kind = "AddOperation"

\* C2: in every state reached by execute, undo, redo and clear, the calls
\* that raise included, 0 <= currentIndex_ <= history_.size().
C2_CursorWithinHistory == 0 <= currentIndex /\ currentIndex <= Len(history)

C2_Witness ==
    /\ last.op = "redo"
    /\ last.err # "none"
    /\ currentIndex < Len(history)

\* C3: every command of the history below the cursor is executed and every
\* command at or above it is not, also after an execute, undo or redo that
\* raised.
C3_ExecutedBelowCursor ==
    \A i \in 1..Len(history) :
        commands[history[i]].executed <=> i <= currentIndex

C3_Witness ==
    /\ last.op = "undo"
    /\ last.err # "none"
    /\ currentIndex > 0
    /\ commands[history[currentIndex]].executed

ExecuteOnce ==
    \A c \in DOMAIN commands :
        CmdExecute(c) =>
            /\ commands[c].executed =>
                   /\ last'.err = "AlreadyExecuted"
                   /\ WorldUnchanged
                   /\ UNCHANGED commands
            /\ (~commands[c].executed /\ last'.err # "none") =>
                   /\ ~commands'[c].executed
                   /\ CommandExecute(World', commands'[c]).err
                          # "AlreadyExecuted"
            /\ (~commands[c].executed /\ last'.err = "none") =>
                   commands'[c].executed

\* C4: execute() on a command that is already executed fails with
\* AlreadyExecuted and leaves the repositories and the command as they were;
\* an execute() whose doExecute raised leaves the command not executed, so
\* that a later execute() is not refused as already executed.
C4_ExecuteOnce == [][ExecuteOnce]_vars

C4_Witness ==
    /\ last.op = "cmd.execute"
    /\ last.err = "AlreadyExecuted"
    /\ last.kind = "AddOperation"

UndoGuards ==
    \A c \in DOMAIN commands :
        CmdUndo(c) =>
            /\ ~commands[c].executed =>
                   /\ last'.err = "NotExecuted"
                   /\ WorldUnchanged
                   /\ UNCHANGED commands
            /\ (commands[c].executed /\ ~canUndo(commands[c])) =>
                   /\ last'.err = "NotUndoable"
                   /\ WorldUnchanged
                   /\ UNCHANGED commands

\* C5: undo() on a command that was never executed or is already undone
\* fails with NotExecuted; undo() on an executed command whose canUndo() is
\* false fails with NotUndoable; either way doUndo is not run: the executed
\* flag and the repositories stay as they were.
C5_UndoGuards == [][UndoGuards]_vars

C5_Witness ==
    /\ last.op = "cmd.undo"
    /\ last.err = "NotUndoable"
    /\ \E c \in DOMAIN commands :
           commands[c].kind = "AddOperation" /\ ~commands[c].executed
                                             /\ commands[c].account # 0

AddOperationUndone ==
    LET c == history[currentIndex] IN
    (/\ HistoryCanUndo
     /\ HistoryUndo
     /\ commands[c].kind = "AddOperation"
     /\ last'.err = "none"
     /\ ghost[c].clean) =>
        /\ accounts'[commands[c].accountId].balance = ghost[c].before
        /\ commands[c].created \in operationRepo
        /\ commands[c].created \notin operationRepo'

\* C6: when an AddOperation is undone through the history and the balance
\* of its account was not changed since it ran, the stored balance is again
\* exactly the balance before the execute and the operation it created is
\* no longer in the operation repository.
C6_AddOperationRoundTrip == [][AddOperationUndone]_vars

C6_Witness ==
    /\ last.op = "undo"
    /\ last.kind = "AddOperation"
    /\ last.err = "none"
    /\ ghost[last.cmd].before.amount > 0
    /\ accounts[commands[last.cmd].accountId].balance = ghost[last.cmd].before
    /\ operationRepo = {}

\* every call so far was an execute that returned normally
OnlyExecutes ==
    /\ run # RunOff
    /\ \A i \in 1..Len(run) : run[i].op = "execute"

\* C7: for every account, whatever its opening balance, after successful
\* AddOperation (income, expense) and Transfer commands only,
\* checkAccountBalance reports no discrepancy.
C7_NoDiscrepancy ==
    OnlyExecutes =>
        \A a \in accountRepo :
            findByAccount(World, a) # {} =>
                ~checkAccountBalance(World, a).hasDiscrepancy

\* an account opened with 100000, then an income of 50000 and an expense of
\* 5000 on it
OpeningBalanceScenario ==
    /\ OnlyExecutes
    /\ Len(run) = 3
    /\ LET c1 == commands[run[1].cmd]
           c2 == commands[run[2].cmd]
           c3 == commands[run[3].cmd]
       IN  /\ c1.kind = "CreateAccount" /\ c1.amount.amount = 100000
           /\ c2.kind = "AddOperation" /\ c2.type = "INCOME"
           /\ c2.accountId = c1.created /\ c2.amount.amount = 50000
           /\ c3.kind = "AddOperation" /\ c3.type = "EXPENSE"
           /\ c3.accountId = c1.created /\ c3.amount.amount = 5000

\* C8: an account created with 100000, after AddOperation(Income, 50000) and
\* AddOperation(Expense, 5000), has the stored balance 145000, and
\* checkAccountBalance reports calculatedBalance 145000 and no discrepancy.
C8_OpeningBalanceCounted ==
    OpeningBalanceScenario =>
        LET a == commands[run[1].cmd].created
            r == checkAccountBalance(World, a)
        IN  /\ accounts[a].balance.amount = 145000
            /\ r.calculatedBalance.amount = 145000
            /\ ~r.hasDiscrepancy

BalancesNonNegative ==
    \A i \in EntityIds : accounts[i].balance.amount >= 0

WithdrawChecked ==
    \A i \in EntityIds, m \in EntityAmounts :
        LET b == accounts[i].balance.amount IN
        (/\ AccountWithdraw(i, m)
         /\ accounts[i].isActive
         /\ m.currency = accounts[i].currency
         /\ b >= 0) =>
            /\ m.amount > b =>
                   /\ last'.err = "InsufficientFunds"
                   /\ accounts'[i].balance.amount = b
            /\ (0 < m.amount /\ m.amount <= b) =>
                   /\ last'.err = "none"
                   /\ accounts'[i].balance.amount = b - m.amount
            /\ accounts'[i].balance.amount >= 0

\* C9: on an active account with balance b >= 0, withdraw(a) in the
\* account's currency with a > b fails with InsufficientFunds and leaves the
\* balance b; with 0 < a <= b it leaves exactly b - a; no sequence of calls
\* makes a balance negative.
C9_WithdrawNeverOverdraws == []BalancesNonNegative /\ [][WithdrawChecked]_vars

C9_Witness ==
    /\ last.op = "withdraw"
    /\ last.err = "InsufficientFunds"
    /\ accounts[last.cmd].balance.amount > 0

\* what the three repositories hold
RepoView ==
    [accounts |-> [a \in accountRepo |-> accounts[a]],
     operations |-> [o \in operationRepo |-> operations[o]],
     categories |-> [k \in categoryRepo |-> categories[k]]]

ValidationLeavesRepositories ==
    (last'.op = "execute" /\ last'.err = "Validation") => RepoView' = RepoView

\* C12: whenever a command's execute() raises a Validation error (a
\* CreateAccount, CreateCategory, AddOperation or Transfer with any input,
\* an over-length description included), the account, category and
\* operation repositories hold exactly what they held before the call.
C12_ValidationPrecedesMutation == [][ValidationLeavesRepositories]_vars

TransferCompensated ==
    \A i \in EntityIds, j \in EntityIds, m \in EntityAmounts :
        (AccountTransfer(i, j, m) /\ DepositFailsAfterWithdraw(i, j, m)) =>
            /\ last'.err = deposit(accounts[j], m).err
            /\ accounts'[i].balance = accounts[i].balance
            /\ accounts'[j].balance = accounts[j].balance

\* C11: when inside a transfer the withdrawal from the source succeeds and
\* the deposit into the destination then raises (the destination has
\* another currency), the source is credited back: the caller gets the
\* deposit's error, the source balance is its value before the transfer and
\* the destination balance is unchanged.
C11_TransferCompensation == [][TransferCompensated]_vars

C11_Witness ==
    /\ last.op = "transfer"
    /\ last.kind = "compensated"
    /\ last.err = "Validation"
    /\ accounts[last.cmd].balance.amount > 0

TransferUndone ==
    LET c == history[currentIndex]
        from == commands[c].accountId
        to == commands[c].toAccountId
        m == commands[c].amount.amount
    IN  (/\ HistoryCanUndo
         /\ HistoryUndo
         /\ commands[c].kind = "Transfer"
         /\ commands[c].executed
         /\ RepoFindById(accountRepo, from)
         /\ RepoFindById(accountRepo, to)) =>
            /\ last'.err = "none"
            /\ ~commands'[c].executed
            /\ accounts'[from].balance.amount = accounts[from].balance.amount + m
            /\ accounts'[to].balance.amount = accounts[to].balance.amount - m

\* C13: undoing an executed Transfer moves the amount back from the
\* destination to the source without the checks of a transfer (active
\* flags, sufficient funds on the destination): whenever both accounts are
\* still stored the undo succeeds and the amount is back on the source.
C13_TransferUndoUnchecked == [][TransferUndone]_vars

WriteThenRead ==
    \A e \in Objects :
        ((ProxySave(e) \/ ProxyUpdate(e)) /\ reply'.err = "none") =>
            \A t \in now' .. MaxTime :
                findById(storage', cache', cacheDuration', e.id, t).result = e

\* C14: after save(e) or update(e) has returned without an error, a
\* findById(e.id) that follows it, at once or after any wait, returns e,
\* whatever the cache held for the id before the write.
C14_CoherentAfterWrite == [][WriteThenRead]_vars

C14_Witness ==
    /\ reply.op \in {"save", "update"}
    /\ reply.err = "none"
    /\ reply.was # NoObject
    /\ reply.was # reply.arg
    /\ reply.id \in DOMAIN cache
    /\ cache[reply.id].data = reply.arg

ReadThrough ==
    \A id \in ObjectIds :
        ProxyFindById(id) =>
            IF id \in DOMAIN cache /\ now <= cache[id].expiry
            THEN /\ reply'.result = cache[id].data
                 /\ reply'.repoCalls = 0
                 /\ cache' = cache
            ELSE /\ reply'.repoCalls = 1
                 /\ reply'.result = StorageFindById(storage, id)
                 /\ IF id \in DOMAIN storage
                    THEN /\ id \in DOMAIN cache'
                         /\ cache'[id] = [data |-> storage[id],
                                          expiry |-> now + cacheDuration]
                    ELSE cache' = cache

\* C15: findById(id) with an entry whose expiry has not passed returns the
\* entry's value, asks the repository nothing and leaves the cache alone;
\* otherwise it asks the repository once, returns its answer and, when an
\* object was found, caches it until now + cacheDuration, while an absent
\* object leaves the cache as it was.
C15_ReadThrough == [][ReadThrough]_vars

C15_Witness ==
    /\ reply.op = "findById"
    /\ reply.repoCalls = 1
    /\ reply.result # NoObject
    /\ now > 0
    /\ cache[reply.id] = [data |-> reply.result,
                          expiry |-> now + cacheDuration]

Evicted ==
    /\ \A id \in ObjectIds :
           ProxyRemove(id) =>
               /\ id \notin DOMAIN cache'
               /\ findById(storage', cache', cacheDuration', id,
                           now').result = NoObject
    /\ ProxyClear =>
           /\ DOMAIN cache' = {}
           /\ \A id \in ObjectIds :
                  findById(storage', cache', cacheDuration', id,
                           now').result = NoObject

\* C16: after remove(id) the cache has no entry for id and findById(id)
\* finds nothing; after clear() the cache is empty and findById finds
\* nothing for any id.
C16_EvictedOnDelete == [][Evicted]_vars

C16_Witness ==
    /\ reply.op = "remove"
    /\ reply.was # NoObject
    /\ reply.id \notin DOMAIN cache
    /\ reply.id \notin DOMAIN storage

FindAllBypassesCache ==
    ProxyFindAll =>
        /\ reply'.all = {storage[x] : x \in DOMAIN storage}
        /\ \A e \in reply'.all :
               /\ e.id \in DOMAIN cache'
               /\ cache'[e.id] = [data |-> e, expiry |-> now + cacheDuration]

\* C17: findAll() returns the objects the repository holds, whatever the
\* cache holds, and leaves every one of them cached until
\* now + cacheDuration.
C17_FindAllBypassesCache == [][FindAllBypassesCache]_vars

C17_Witness ==
    /\ reply.op = "findAll"
    /\ Cardinality(reply.all) = 2
    /\ now > 0
    /\ \A e \in reply.all : cache[e.id].expiry = now + cacheDuration

DurationChanged ==
    \A d \in Durations :
        ProxySetCacheDuration(d) =>
            /\ Cardinality(DOMAIN cache') = 0
            /\ storage' = storage
            /\ cacheDuration' = d

ExpiryFollowsDuration ==
    \A id \in DOMAIN cache : cache[id].expiry - cacheDuration \in 0 .. now

\* C18: setCacheDuration(d) leaves the cache empty and the repository as it
\* was, and every entry found in the cache was given the expiry of the
\* duration in force: the clock reading of its caching plus cacheDuration.
C18_DurationChangeInvalidates ==
    []ExpiryFollowsDuration /\ [][DurationChanged]_vars

C18_Witness ==
    /\ cacheDuration # DefaultCacheDuration
    /\ DOMAIN cache # {}
    /\ \E id \in DOMAIN storage \ DOMAIN cache : reply.id # id
    /\ reply.op \in {"save", "findById"}
    /\ cache[reply.id].expiry = now + cacheDuration

NeverBothMutexes ==
    \A t \in Threads : ~(mutex.cache = t /\ mutex.repo = t)

NoDeadlock ==
    (\E t \in Threads : threads[t].pc # "idle") =>
        \E t \in Threads : ENABLED Step(t)

EveryCallReturns ==
    \A t \in Threads : (threads[t].pc # "idle") ~> (threads[t].pc = "idle")

Concurrent(t, u) ==
    /\ u # t
    /\ threads[u].op \in {"save", "update", "remove"}
    /\ threads[u].id = threads[t].id

NoIntermediateState ==
    \A t \in Threads :
        (/\ threads[t].op = "findById"
         /\ Returns(t)
         /\ \E u \in Threads : Concurrent(t, u)) =>
            Returned(t) \in threads[t].seen

\* C20: the value a findById hands back is one the repository held for
\* the id at some moment between the call and its return, the moment of
\* the return included, whatever save, update or remove of the id another
\* thread runs at the same time.
C20_NoIntermediateState == [][NoIntermediateState]_vars

UpdateOfAbsentId ==
    \A e \in Objects :
        (ProxyUpdate(e) /\ e.id \notin DOMAIN storage) =>
            /\ reply'.err = "NotFound"
            /\ StorageUpdate(storage, e).err = "NotFound"
            /\ StorageUpdate(storage, e).storage = storage
            /\ storage' = storage
            /\ cache' = cache

\* C21: update(e) when no object with e's id is stored fails with the
\* not-found error and leaves the store, its ids and its values, as it was;
\* through the caching proxy the cache is left as it was too.
C21_UpdateOfAbsentId == [][UpdateOfAbsentId]_vars

C21_Witness ==
    /\ reply.op = "update"
    /\ reply.err = "NotFound"
    /\ reply.id \notin DOMAIN storage
    /\ DOMAIN storage # {}
    /\ DOMAIN cache # {}

\* remove(id); remove(id) leaves what remove(id) leaves
RemoveTwice(s) ==
    \A id \in ObjectIds :
        StorageRemove(StorageRemove(s, id), id) = StorageRemove(s, id)

SaveAndRemove ==
    /\ \A e \in Objects :
           ProxySave(e) =>
               /\ reply'.err = "none"
               /\ StorageFindById(storage', e.id) = e
               /\ StorageCount(storage') =
                      StorageCount(storage) +
                          (IF StorageFindById(storage, e.id) = NoObject
                           THEN 1 ELSE 0)
               /\ \A x \in ObjectIds \ {e.id} :
                      StorageFindById(storage', x) =
                          StorageFindById(storage, x)
    /\ \A id \in ObjectIds :
           ProxyRemove(id) =>
               /\ StorageFindById(storage', id) = NoObject
               /\ StorageCount(storage') =
                      StorageCount(storage) -
                          (IF StorageFindById(storage, id) = NoObject
                           THEN 0 ELSE 1)
               /\ (StorageFindById(storage, id) = NoObject =>
                       storage' = storage)
               /\ StorageRemove(storage', id) = storage'
               /\ \A x \in ObjectIds \ {id} :
                      StorageFindById(storage', x) =
                          StorageFindById(storage, x)

\* C22: save(e) succeeds whether or not e's id is stored; after it
\* findById(e.id) returns e and the count has grown by one exactly when the
\* id was new, so the count is the number of ids saved and not removed;
\* remove(id) of an id that is not stored changes nothing, and a second
\* remove(id) changes nothing after the first.
C22_SaveAndRemove ==
    /\ [](StorageCount(storage) = Cardinality({x \in ObjectIds :
              StorageFindById(storage, x) # NoObject}))
    /\ []RemoveTwice(storage)
    /\ [][SaveAndRemove]_vars

C22_Witness ==
    /\ reply.op = "save"
    /\ reply.was # NoObject
    /\ reply.was # reply.arg
    /\ StorageFindById(storage, reply.id) = reply.arg
    /\ StorageCount(storage) = 2

Exclusive ==
    Cardinality({t \in Threads : threads[t].pc \in InBody}) <= 1

StableWhileHeld ==
    \A t \in Threads : threads[t].pc \in InBody => storage = threads[t].snap

CallsAtomic ==
    \A t \in Threads :
        (threads[t].pc \in InBody /\ threads'[t].pc = "returned") =>
            \E r \in {Sequential(threads[t].snap, threads[t])} :
                /\ storage' = r.storage
                /\ threads'[t].err = r.thread.err
                /\ threads'[t].result = r.thread.result
                /\ threads'[t].all = r.thread.all
                /\ threads'[t].count = r.thread.count

OnlyTheHolderWrites ==
    storage' # storage => \E t \in Threads : threads[t].pc \in InBody /\ mutex.repo = t

\* C23: the calls of save, update, remove, findById, findAll, count and
\* clear by several threads take effect one at a time in the order in which
\* they take the mutex: at most one thread is inside a method, the storage
\* a method found when it took the mutex stays until it leaves, and what
\* the method leaves and returns is what it leaves and returns when called
\* alone on that storage.
C23_RepositoryAtomic ==
    /\ []Exclusive
    /\ []StableWhileHeld
    /\ [][CallsAtomic /\ OnlyTheHolderWrites]_vars

C23_Witness ==
    \E t \in Threads, u \in Threads :
        /\ threads[t].op = "update"
        /\ threads[t].pc = "assign"
        /\ threads[u].op = "remove"
        /\ threads[u].pc = "repo"
        /\ threads[u].id = threads[t].id

NotObservableBeforeUpdate ==
    last'.op # "update" => Observed' = Observed

\* C24: a deposit, withdrawal, transfer, activation or deactivation applied
\* to an account obtained from findById(id) does not show in what
\* findById(id) and findAll() return: what they return changes only in a
\* call of update.
C24_UpdateSolePersistencePath == [][NotObservableBeforeUpdate]_vars

RemovedWithZeroBalance ==
    \A id \in accountRepo \ accountRepo' : isZero(accounts[id].balance)

\* C25: in every step that takes an account out of the account repository,
\* deleteAccount or the undo of a CreateAccount, the balance of the account
\* is zero when it is removed.
C25_RemovedOnlyWhenZero == [][RemovedWithZeroBalance]_vars

UndoOfHistory ==
    HistoryUndo =>
        IF currentIndex = 0 \/ ~canUndo(commands[history[currentIndex]])
        THEN /\ WorldUnchanged
             /\ UNCHANGED <<history, currentIndex, commands>>
        ELSE \E c \in {history[currentIndex]} :
             /\ UNCHANGED history
             /\ last'.cmd = c
             /\ last'.err = CommandUndo(World, commands[c]).err
             /\ \A d \in DOMAIN commands \ {c} : commands'[d] = commands[d]
             /\ IF last'.err = "none"
                THEN /\ currentIndex' = currentIndex - 1
                     /\ commands[c].executed
                     /\ ~commands'[c].executed
                     /\ CommandUndo(World', commands'[c]).err = "NotExecuted"
                ELSE /\ currentIndex' = currentIndex
                     /\ commands'[c].executed = commands[c].executed

\* C26: CommandHistory::undo() leaves the cursor, the history, the commands
\* and the repositories alone when the cursor is 0 or the command before
\* the cursor cannot be undone; otherwise it runs the undo() of that one
\* command once and moves the cursor back by one, and when that undo()
\* raises the cursor stays.
C26_HistoryUndo == [][UndoOfHistory]_vars

C26_Witness ==
    /\ last.op = "undo"
    /\ last.err # "none"
    /\ last.cmd # 0
    /\ currentIndex > 0
    /\ history[currentIndex] = last.cmd
    /\ commands[last.cmd].executed
    /\ \E i \in 1 .. Len(history) : commands[history[i]].kind = "Base"

RedoOfHistory ==
    HistoryRedo =>
        IF currentIndex = Len(history)
        THEN /\ WorldUnchanged
             /\ UNCHANGED <<history, currentIndex, commands>>
        ELSE /\ UNCHANGED history
             /\ last'.cmd = history[currentIndex + 1]
             /\ last'.err = "none" =>
                    /\ currentIndex' = currentIndex + 1
                    /\ commands'[history[currentIndex + 1]].executed

\* the balances of the stored accounts, each with the number of accounts
\* that have it
BalancesOf(w) ==
    [b \in {w.accounts[i].balance : i \in w.accountRepo} |->
        Cardinality({i \in w.accountRepo : w.accounts[i].balance = b})]

\* undo() and then redo(), from the state as it is
UndoThenRedo ==
    (/\ HistoryCanUndo
     /\ commands[history[currentIndex]].kind \in
            {"AddOperation", "CreateAccount", "CreateCategory"}) =>
        \A u \in {CommandUndo(World, commands[history[currentIndex]])} :
            u.err = "none" =>
                \A r \in {CommandExecute(u.w, u.cmd)} :
                    /\ IndexAfterRedo(r.err = "none",
                           IndexAfterUndo(TRUE, currentIndex)) = currentIndex
                    /\ BalancesOf(r.w) = BalancesOf(World)

\* C27: CommandHistory::redo() changes nothing when the cursor is at the end
\* of the history; otherwise it executes the command at the cursor again
\* and, when that succeeds, moves the cursor forward by one; and for an
\* AddOperation, CreateAccount or CreateCategory before the cursor a
\* successful undo() followed at once by redo() brings back the cursor and
\* the balances of the stored accounts.
C27_RedoRestores == [][RedoOfHistory]_vars /\ []UndoThenRedo

\* the signed sum of the operations stored for account id
SignedSum(w, id) ==
    foldOperations(w, findByAccount(w, id), MoneyZero(w.accounts[id].currency))

Repaired ==
    \A id \in AccountIds :
        (RecalculateBalance(id, TRUE) /\ RepoFindById(accountRepo, id)) =>
            /\ last'.err = "none"
            /\ accounts'[id].balance = SignedSum(World', id)
            /\ ~checkAccountBalance(World', id).hasDiscrepancy
            /\ UNCHANGED <<operations, operationRepo, accountRepo>>

ChecksReadOnly ==
    \A id \in AccountIds :
        (RecalculateBalance(id, FALSE) \/ CheckAccountBalance(id)
            \/ CheckAllBalances) => WorldUnchanged

AbsentNotFound ==
    \A id \in AccountIds :
        ~RepoFindById(accountRepo, id) =>
            ((RecalculateBalance(id, TRUE) \/ RecalculateBalance(id, FALSE)
                \/ CheckAccountBalance(id)) =>
                    last'.err = "NotFound" /\ WorldUnchanged)

\* C28: after recalculateBalance(accountId, autoFix = true) on a stored
\* account the stored balance is the signed sum of the account's operations
\* and checkAccountBalance reports no discrepancy; recalculateBalance with
\* autoFix = false, checkAccountBalance and checkAllBalances change no stored
\* balance or operation; with an absent account id the calls raise NotFound.
C28_ReconciliationRepair ==
    [][Repaired /\ ChecksReadOnly /\ AbsentNotFound]_vars

\* recalculateBalance(autoFix = true) has overwritten an opening balance of
\* 5000 on an account without operations
C28_Witness ==
    /\ last.op = "recalculateBalance"
    /\ last.err = "none"
    /\ \E c \in 1 .. Len(commands) :
           /\ commands[c].kind = "CreateAccount"
           /\ commands[c].amount.amount = 5000
           /\ commands[c].created \in accountRepo
           /\ findByAccount(World, commands[c].created) = {}
           /\ accounts[commands[c].created].balance.amount = 0

ExecuteOfCreateAccount ==
    (last'.op = "execute" /\ last'.kind = "CreateAccount") =>
        IF last'.err = "none"
        THEN /\ Len(accounts') = Len(accounts) + 1
             /\ \A i \in 1 .. Len(accounts) : accounts'[i] = accounts[i]
             /\ Len(accounts') \notin accountRepo
             /\ accountRepo' = accountRepo \cup {Len(accounts')}
             /\ commands'[last'.cmd].created = Len(accounts')
             /\ accounts'[Len(accounts')] =
                    NamedAccount(commands'[last'.cmd].name,
                                 commands'[last'.cmd].amount)
             /\ UNCHANGED <<operations, operationRepo, categories,
                            categoryRepo>>
        ELSE WorldUnchanged

UndoOfCreateAccount ==
    (HistoryUndo /\ last'.kind = "CreateAccount" /\ last'.err = "none") =>
        /\ accountRepo' = accountRepo \ {commands[last'.cmd].created}
        /\ UNCHANGED <<accounts, operations, operationRepo, categories,
                       categoryRepo>>

ExecuteThenUndo ==
    \A name \in AccountNames, b \in InitialBalances :
        \A r \in {CommandExecute(World, CreateAccountCommand(name, b))} :
            IF name = "" \/ b < 0
            THEN r.err = "Validation" /\ r.w = World
            ELSE /\ r.err = "none"
                 /\ \A u \in {CommandUndo(r.w, r.cmd)} :
                        /\ u.err = "none"
                        /\ u.w.accountRepo = accountRepo
                        /\ r.w.accountRepo \ u.w.accountRepo = {r.cmd.created}

\* C29: execute of a CreateAccount command adds exactly one account, with a
\* fresh id and the given name and initial balance, to the account
\* repository and changes nothing else; the undo that follows removes exactly
\* that id, so the repository holds the ids it held before the execute;
\* execute with an empty name or a negative initial balance raises Validation
\* and adds nothing.
C29_CreateAccountRoundTrip ==
    [][ExecuteOfCreateAccount /\ UndoOfCreateAccount]_vars /\ []ExecuteThenUndo

\* a CreateAccount command was executed and then undone, and nothing else
C29_Witness ==
    /\ Len(run) = 2
    /\ run[1].op = "execute"
    /\ run[1].kind = "CreateAccount"
    /\ run[2].op = "undo"
    /\ run[2].cmd = run[1].cmd
    /\ Len(accounts) = 1
    /\ accounts[1].name = "Main"
    /\ accountRepo = {}

ColourWellFormed ==
    \A i \in 1 .. Len(categories) : validateColor(categories[i].color)

InvalidValueRejected ==
    /\ \A name \in CategoryNameLengths :
           (SetName(name) /\ (name = 0 \/ name > CategoryNameLength)) =>
               last'.err = "Validation" /\ UNCHANGED categories
    /\ \A description \in CategoryDescriptionLengths :
           (SetDescription(description)
               /\ description > CategoryDescriptionLength) =>
               last'.err = "Validation" /\ UNCHANGED categories
    /\ \A color \in Colors :
           (SetColor(color) /\ ~validateColor(color)) =>
               last'.err = "Validation" /\ UNCHANGED categories

\* C30: in every state reached by constructing a Category and calling its
\* setters (setName, setDescription, setColor, setIcon) with any arguments,
\* the stored colour matches #RGB or #RRGGBB; a setter called with an invalid
\* value fails and leaves the category unchanged.
C30_CategoryColour == []ColourWellFormed /\ [][InvalidValueRejected]_vars

RolledBack ==
    \A c \in DOMAIN commands :
        ((DecoratedExecute(c) \/ DecoratedUndo(c)) /\ last'.err # "none") =>
            RepoView' = RepoView

NoOpenTransaction == ~inTransaction

\* C31: when a command wrapped in a TransactionDecorator raises during
\* execute() or undo(), the account, category and operation repositories are
\* as they were before the call, and after every call the unit of work has
\* no open transaction.
C31_TransactionAtomic == [][RolledBack]_vars /\ []NoOpenTransaction

\* stored balance minus the signed sum of the account's stored operations
LedgerDifference(w, a) == w.accounts[a].balance.amount - SignedSum(w, a).amount

LedgerKept ==
    (/\ last'.op \in {"execute", "undo", "redo"}
     /\ last'.err = "none"
     /\ last'.kind \in {"AddOperation", "Transfer"}) =>
        \A a \in accountRepo \cap accountRepo' :
            LedgerDifference(World', a) = LedgerDifference(World, a)

\* C32: under one CommandHistory, for every account the stored balance minus
\* the signed sum of the account's operations in the operation repository
\* keeps its value across every successful execute, undo and redo of an
\* AddOperation or Transfer command.
C32_LedgerInvariant == [][LedgerKept]_vars

FailedSubmissionKeepsHistory ==
    (last'.op = "execute" /\ last'.err # "none") =>
        UNCHANGED <<history, currentIndex>>

\* C33: if the command's execute() raises inside CommandHistory::execute, the
\* history sequence and the cursor are as before the call: the failed command
\* is not appended and the undone commands remain available for redo.
C33_FailedSubmissionKeepsHistory == [][FailedSubmissionKeepsHistory]_vars

\* the signed amount of the command thread t executed
SignedAmount(t) ==
    IF threads[t].type = "INCOME" THEN threads[t].amount.amount
    ELSE -threads[t].amount.amount

BothSucceeded ==
    \A t \in Threads : threads[t].pc = "returned" /\ threads[t].err = "none"

NoLostUpdate ==
    BothSucceeded =>
        accounts[1].balance.amount =
            ghost[1].before.amount + SignedAmount(1) + SignedAmount(2)

BalanceNeverNegative == accounts[1].balance.amount >= 0

\* C34: when two AddOperation commands on the same account execute on two
\* threads and both succeed, the final stored balance is the initial balance
\* plus the signed sum of both amounts, and the balance is negative in no
\* intermediate or final state.
C34_NoLostUpdate == NoLostUpdate /\ BalanceNeverNegative

\* no call of the proxy is in progress
Quiescent == \A t \in Threads : threads[t].pc = "idle"

\* every unexpired cache entry holds what the repository holds for its id
CacheAgrees(id) ==
    cacheHit(cache, id, now) =>
        /\ StorageFindById(storage, id) # NoObject
        /\ cache[id].data = StorageFindById(storage, id)

\* C35: once a remove(id) of one thread and a findById(id) of another
\* (missing the cache) have both returned, the cache holds no unexpired entry
\* for an id absent from the repository, so a later findById(id) returns
\* absent; after two concurrent save calls for one id the cached value is the
\* repository's value.
C35_NoResurrection == Quiescent => \A id \in ObjectIds : CacheAgrees(id)

ProxyAnswersAsRepository ==
    \A id \in ObjectIds :
        findById(storage, cache, cacheDuration, id, now).result =
            StorageFindById(storage, id)

\* C36: with one caller and every write going through the proxy, after any
\* sequence of save, update, remove, findById, findAll, clear and
\* setCacheDuration calls every unexpired cache entry holds the repository's
\* value for its id, no unexpired entry exists for an id absent from the
\* repository, and proxy.findById(id) equals repository.findById(id).
C36_SequentialCoherence ==
    /\ \A id \in ObjectIds : CacheAgrees(id)
    /\ ProxyAnswersAsRepository

\* an object cached and unexpired was removed through the proxy while
\* another id stays cached, and time has passed
C36_Witness ==
    /\ reply.op = "remove"
    /\ reply.was # NoObject
    /\ now > 0
    /\ \E id \in ObjectIds : cacheHit(cache, id, now)

FailedUndoChangesNothing ==
    (HistoryUndo /\ last'.kind = "AddOperation" /\ last'.err # "none") =>
        /\ RepoView' = RepoView
        /\ UNCHANGED <<history, currentIndex>>
        /\ commands'[last'.cmd].executed

\* C37: if undo() of an executed AddOperation raises (the account was removed
\* from the account repository after the execute, so the update fails with
\* NotFound), nothing has changed: the created operation is still in the
\* operation repository, the command is still executed and the cursor of the
\* history is where it was.
C37_UndoAllOrNothing == [][FailedUndoChangesNothing]_vars

\* the operations a step added to the operation repository
NewOperations == operationRepo' \ operationRepo

TransferConserves ==
    (/\ last'.op \in {"execute", "redo"}
     /\ last'.kind = "Transfer"
     /\ last'.err = "none") =>
        \A c \in {commands'[last'.cmd]} :
            /\ c.accountId # c.toAccountId
            /\ accounts[c.accountId].balance.amount >= c.amount.amount
            /\ accounts'[c.accountId].balance.amount =
                   accounts[c.accountId].balance.amount - c.amount.amount
            /\ accounts'[c.toAccountId].balance.amount =
                   accounts[c.toAccountId].balance.amount + c.amount.amount
            /\ accounts'[c.accountId].balance.amount
                   + accounts'[c.toAccountId].balance.amount =
               accounts[c.accountId].balance.amount
                   + accounts[c.toAccountId].balance.amount
            /\ \A a \in DOMAIN accounts \ {c.accountId, c.toAccountId} :
                   accounts'[a] = accounts[a]
            /\ operationRepo \subseteq operationRepo'
            /\ Cardinality(NewOperations) = 2
            /\ NewOperations = {c.withdrawOperation, c.depositOperation}
            /\ \A o \in {operations'[c.withdrawOperation]} :
                   /\ o.type = "EXPENSE"
                   /\ o.bankAccountId = c.accountId
                   /\ o.amount = c.amount
            /\ \A o \in {operations'[c.depositOperation]} :
                   /\ o.type = "INCOME"
                   /\ o.bankAccountId = c.toAccountId
                   /\ o.amount = c.amount
            /\ operations'[c.withdrawOperation].categoryId =
                   operations'[c.depositOperation].categoryId
            /\ operations'[c.withdrawOperation].categoryId \in categoryRepo'
            /\ categories'[operations'[c.withdrawOperation].categoryId].name =
                   TransferCategoryName

\* C38: a successful execute of a TransferCommand of amount m from A to B
\* (A # B, both active, same currency, balance(A) >= m) lowers A's stored
\* balance by m, raises B's by m, so their sum is kept, and adds exactly two
\* operations, an Expense of m on A and an Income of m on B, both with the
\* transfer category.
C38_TransferConservation == [][TransferConserves]_vars

\* a transfer of a positive amount has been executed between two accounts
C38_Witness ==
    /\ last.op = "execute"
    /\ last.kind = "Transfer"
    /\ last.err = "none"
    /\ commands[last.cmd].amount.amount > 0
    /\ Cardinality(operationRepo) = 2
    /\ accounts[commands[last.cmd].toAccountId].balance.amount
           = commands[last.cmd].amount.amount

\* the effect of an operation on the balance of its account
SignedAmountOf(op) ==
    IF op.type = "INCOME" THEN op.amount.amount ELSE -op.amount.amount

DeleteAdjusts ==
    \A o \in OperationIds :
        (DeleteOperation(o) /\ last'.err = "none") =>
            \A a \in {operations[o].bankAccountId} :
                accounts'[a].balance.amount =
                    accounts[a].balance.amount - SignedAmountOf(operations[o])

UpdateAdjusts ==
    \A o \in OperationIds, m \in NewAmounts, d \in NewDescriptions :
        (UpdateOperation(o, Money(m, DefaultCurrency), d)
            /\ last'.err = "none") =>
            \A a \in {operations[o].bankAccountId} :
                accounts'[a].balance.amount =
                    accounts[a].balance.amount
                        + SignedAmountOf(operations'[o])
                        - SignedAmountOf(operations[o])

\* C39: deleteOperation(op) changes the stored balance of op's account by
\* minus op's signed amount, and updateOperation(op, newAmount) changes it by
\* the difference of the signed amounts, whatever the account's opening
\* balance was.
C39_OperationEditAdjustsBalance == [][DeleteAdjusts /\ UpdateAdjusts]_vars

\* C40: for accounts created through the command engine (initial balance
\* >= 0), in every state reached by command execute / undo / redo,
\* recalculateBalance(autoFix = true) and the facade's updateOperation /
\* deleteOperation, every stored account balance is >= 0.
C40_BalancesNonNegative ==
    \A a \in accountRepo : accounts[a].balance.amount >= 0

TransferRefused ==
    \A from \in AccountIds, to \in AccountIds, m \in FewAmounts :
        (/\ Submit(TransferCommand(from, to, m))
         /\ from # to
         /\ RepoFindById(accountRepo, from) /\ RepoFindById(accountRepo, to)
         /\ accounts[from].isActive /\ accounts[to].isActive
         /\ m > accounts[from].balance.amount) =>
            /\ last' = Call("execute", "Transfer", 0, "InsufficientFunds")
            /\ WorldUnchanged
            /\ UNCHANGED commands
            /\ history' = Truncate(history, currentIndex)
            /\ ~CommandExecute(World, TransferCommand(from, to, m)).cmd.executed

\* C10: a TransferCommand from A to B (two distinct stored active accounts)
\* with an amount above A's balance fails with InsufficientFunds: both
\* balances and every repository are unchanged, no operation is recorded,
\* and the command is left not executed and is not appended to the history.
C10_TransferInsufficientFunds == [][TransferRefused]_vars

C10_Witness ==
    /\ last = Call("execute", "Transfer", 0, "InsufficientFunds")
    /\ Cardinality(accountRepo) = 2
    /\ operationRepo = {}

====
